---------------------------- MODULE Spec2Model ----------------------------
(***************************************************************************)
(* A model of the rule-based medical triage server of                      *)
(* src/src/simple_mcp.py: the keyword tables, the condition classifier,    *)
(* the triage engine, the response assembler and the capped session log,   *)
(* of the /mcp endpoint of src/src/web_server.py in front of it, and of    *)
(* the first version of the server in src/src/main.py.                     *)
(*                                                                         *)
(* A Python str is modelled as the sequence of its characters, each        *)
(* character a one-letter string, so that the substring test `k in text`   *)
(* and str.lower() are computed character by character as Python does.     *)
(* Fixed message texts that the program only stores and returns are TLA+   *)
(* strings, written without the symbols outside ASCII that some of them    *)
(* carry.  A Python dict is a function on its keys (a record), or, where   *)
(* the program walks it in order or looks a text up in it, the sequence of *)
(* its items.                                                              *)
(***************************************************************************)
EXTENDS Integers, Sequences, FiniteSets, TLC

VARIABLES
    sessions,   \* MedicalMCPServer.sessions: the session log, oldest first
    clock,      \* the number of timestamps datetime.now() has handed out
    appended,   \* history: every record _log_session was ever given, in order
    text,       \* the request text this behaviour works on
    lastCall,   \* the last call made: its method, its argument and its result
    returned,   \* history: per method, the results returned for `text` so far
    google_api_key,  \* MedicalMCPServer.google_api_key
    exchange,   \* the last POST /mcp: the request body and the response sent
    mvp_medicines,  \* main.py's BASIC_MEDICINES, which the MVP writes into
    mvp_exchange,   \* the last POST /mcp of the MVP: the request and the response
    pc,         \* where each thread that runs _log_session stands in it
    slice       \* the self.sessions[-100:] that each such thread has read

vars == <<sessions, clock, appended, text, lastCall, returned, google_api_key, exchange,
          mvp_medicines, mvp_exchange, pc, slice>>

---------------------------------------------------------------------------
(* Characters and Python's str methods.                                    *)

UPPERCASE ==
    <<"A","B","C","D","E","F","G","H","I","J","K","L","M","N","O","P","Q","R","S","T","U","V","W","X","Y","Z">>
LOWERCASE ==
    <<"a","b","c","d","e","f","g","h","i","j","k","l","m","n","o","p","q","r","s","t","u","v","w","x","y","z">>

\* U+017F LATIN SMALL LETTER LONG S, one of the letters outside ASCII that a
\* request may hold: it is lowercase, so str.lower() leaves it alone, and its
\* uppercase is "S".
LONG_S == "LONG_S"

IndexIn(c, letters) == CHOOSE i \in 1..Len(letters) : letters[i] = c
IsIn(c, letters) == \E i \in 1..Len(letters) : letters[i] = c

\* str.lower() on one character, then on a string.
char_lower(c) == IF IsIn(c, UPPERCASE) THEN LOWERCASE[IndexIn(c, UPPERCASE)] ELSE c
str_lower(s) == [i \in 1..Len(s) |-> char_lower(s[i])]

\* Python's `k in s` on two strings: k is a contiguous substring of s.
str_contains(s, k) ==
    \E i \in 0..(Len(s) - Len(k)) :
        \A j \in 1..Len(k) : s[i + j] = k[j]

\* any(word in s for word in words)
any_word_in(words, s) == \E n \in 1..Len(words) : str_contains(s, words[n])

\* str.split(sep) for a one-character separator: the pieces between the
\* separators, in order (an empty string gives one empty piece).
RECURSIVE str_split(_, _)
str_split(s, sep) ==
    IF \A i \in 1..Len(s) : s[i] # sep THEN <<s>>
    ELSE LET p == CHOOSE i \in 1..Len(s) :
                      s[i] = sep /\ \A j \in 1..(i - 1) : s[j] # sep
         IN  <<SubSeq(s, 1, p - 1)>> \o str_split(SubSeq(s, p + 1, Len(s)), sep)

---------------------------------------------------------------------------
(* The hardcoded medical data.                                             *)

EMERGENCY_KEYWORDS ==
    <<
      <<"c","h","e","s","t"," ","p","a","i","n">>,  \* "chest pain"
      <<"d","i","f","f","i","c","u","l","t","y"," ","b","r","e","a","t","h","i","n","g">>,  \* "difficulty breathing"
      <<"u","n","c","o","n","s","c","i","o","u","s">>,  \* "unconscious"
      <<"s","e","v","e","r","e"," ","b","l","e","e","d","i","n","g">>,  \* "severe bleeding"
      <<"s","t","r","o","k","e">>,  \* "stroke"
      <<"h","e","a","r","t"," ","a","t","t","a","c","k">>,  \* "heart attack"
      <<"p","o","i","s","o","n","i","n","g">>,  \* "poisoning"
      <<"s","e","v","e","r","e"," ","h","e","a","d","a","c","h","e">>,  \* "severe headache"
      <<"h","i","g","h"," ","f","e","v","e","r"," ","a","b","o","v","e"," ","1","0","3">>,  \* "high fever above 103"
      <<"s","e","i","z","u","r","e">>,  \* "seizure"
      <<"s","u","i","c","i","d","e">>,  \* "suicide"
      <<"s","e","l","f"," ","h","a","r","m">>,  \* "self harm"
      <<"o","v","e","r","d","o","s","e">>,  \* "overdose"
      <<"c","h","o","k","i","n","g">>,  \* "choking"
      <<"s","e","v","e","r","e"," ","a","b","d","o","m","i","n","a","l"," ","p","a","i","n">>,  \* "severe abdominal pain"
      <<"s","e","v","e","r","e"," ","v","o","m","i","t","i","n","g">>,  \* "severe vomiting"
      <<"b","l","o","o","d"," ","i","n"," ","v","o","m","i","t">>,  \* "blood in vomit"
      <<"b","l","o","o","d"," ","i","n"," ","s","t","o","o","l">>,  \* "blood in stool"
      <<"s","e","v","e","r","e"," ","d","i","a","r","r","h","e","a">>,  \* "severe diarrhea"
      <<"d","e","h","y","d","r","a","t","i","o","n"," ","s","i","g","n","s">>   \* "dehydration signs"
    >>

\* The condition tags: keys of the tables below.  The remedy keys are also
\* searched for in the request text, so a tag is a character sequence.
s_fever == <<"f","e","v","e","r">>
s_headache == <<"h","e","a","d","a","c","h","e">>
s_cough == <<"c","o","u","g","h">>
s_cold == <<"c","o","l","d">>
s_stomach_upset == <<"s","t","o","m","a","c","h","_","u","p","s","e","t">>
s_pain == <<"p","a","i","n">>
s_general == <<"g","e","n","e","r","a","l">>

\* dict.get(key, default) and `key in dict` on a dict kept as the sequence of
\* its <<key, value>> items in insertion order.
dict_has(d, k) == \E i \in 1..Len(d) : d[i][1] = k
dict_get(d, k, default) ==
    IF dict_has(d, k) THEN d[CHOOSE i \in 1..Len(d) : d[i][1] = k][2] ELSE default

\* {}: the dict with no keys.
EmptyDict == [k \in {} |-> ""]

BASIC_MEDICINES ==
    << <<s_fever,
         [medicine |-> "Paracetamol",
          dose |-> "500mg every 6-8 hours",
          max_daily |-> "4g (4000mg)",
          warning |-> "Don't exceed maximum daily dose",
          age_restriction |-> "Not for children under 3 months"]>>,
       <<s_headache,
         [medicine |-> "Paracetamol or Ibuprofen",
          dose |-> "Paracetamol: 500mg OR Ibuprofen: 200-400mg",
          frequency |-> "every 6-8 hours",
          warning |-> "Don't take both together",
          age_restriction |-> "Ibuprofen not for children under 6 months"]>>,
       <<s_pain,
         [medicine |-> "Ibuprofen",
          dose |-> "200-400mg every 6-8 hours",
          max_daily |-> "1200mg",
          warning |-> "Take with food to avoid stomach upset",
          age_restriction |-> "Not for children under 6 months"]>>,
       <<s_cold,
         [medicine |-> "Paracetamol for fever/pain",
          dose |-> "500mg every 6-8 hours",
          additional |-> "ORS for hydration if needed",
          warning |-> "No antibiotics for viral cold"]>> >>

HOME_REMEDIES ==
    << <<s_fever,
         <<"Rest and drink plenty of fluids (water, fruit juices)",
           "Cool compress on forehead and wrists",
           "Light, loose cotton clothing",
           "Room temperature bath or sponging",
           "Avoid heavy meals, eat light foods">> >>,
       <<s_cough,
         <<"Honey and warm water (1 tsp honey in warm water)",
           "Steam inhalation (hot water bowl with towel over head)",
           "Gargle with warm salt water (1/2 tsp salt in warm water)",
           "Stay hydrated with warm fluids",
           "Elevate head while sleeping">> >>,
       <<s_headache,
         <<"Rest in dark, quiet room",
           "Cold compress on forehead or warm compress on neck",
           "Stay hydrated - drink water",
           "Gentle neck and shoulder massage",
           "Avoid loud noises and bright lights">> >>,
       <<s_cold,
         <<"Rest and get adequate sleep",
           "Warm fluids (herbal tea, warm water with honey)",
           "Saline nasal rinse or drops",
           "Humidifier or steam inhalation",
           "Throat lozenges for sore throat">> >>,
       <<s_stomach_upset,
         <<"BRAT diet (Bananas, Rice, Applesauce, Toast)",
           "Stay hydrated with ORS or clear fluids",
           "Ginger tea for nausea",
           "Avoid dairy, fatty, or spicy foods",
           "Rest and avoid stress">> >> >>

---------------------------------------------------------------------------
(* The keyword lists of the helper methods, in the order the code tests    *)
(* them.                                                                   *)

FEVER_WORDS ==
    <<
      <<"f","e","v","e","r">>,  \* "fever"
      <<"t","e","m","p","e","r","a","t","u","r","e">>,  \* "temperature"
      <<"h","o","t">>,  \* "hot"
      <<"b","u","r","n","i","n","g">>   \* "burning"
    >>
HEADACHE_WORDS ==
    <<
      <<"h","e","a","d","a","c","h","e">>,  \* "headache"
      <<"h","e","a","d"," ","p","a","i","n">>,  \* "head pain"
      <<"m","i","g","r","a","i","n","e">>   \* "migraine"
    >>
COUGH_WORDS ==
    <<
      <<"c","o","u","g","h">>,  \* "cough"
      <<"c","o","u","g","h","i","n","g">>   \* "coughing"
    >>
COLD_WORDS ==
    <<
      <<"c","o","l","d">>,  \* "cold"
      <<"r","u","n","n","y"," ","n","o","s","e">>,  \* "runny nose"
      <<"s","o","r","e"," ","t","h","r","o","a","t">>,  \* "sore throat"
      <<"s","n","e","e","z","i","n","g">>   \* "sneezing"
    >>
STOMACH_WORDS ==
    <<
      <<"s","t","o","m","a","c","h">>,  \* "stomach"
      <<"n","a","u","s","e","a">>,  \* "nausea"
      <<"v","o","m","i","t","i","n","g">>,  \* "vomiting"
      <<"d","i","a","r","r","h","e","a">>   \* "diarrhea"
    >>
PAIN_WORDS ==
    <<
      <<"p","a","i","n">>,  \* "pain"
      <<"a","c","h","e">>,  \* "ache"
      <<"h","u","r","t">>   \* "hurt"
    >>
URGENT_WORDS ==
    <<
      <<"s","e","v","e","r","e">>,  \* "severe"
      <<"e","x","t","r","e","m","e">>,  \* "extreme"
      <<"u","n","b","e","a","r","a","b","l","e">>,  \* "unbearable"
      <<"i","n","t","e","n","s","e">>   \* "intense"
    >>
ROUTINE_WORDS ==
    <<
      <<"h","i","g","h"," ","f","e","v","e","r">>,  \* "high fever"
      <<"1","0","3">>,  \* "103"
      <<"p","e","r","s","i","s","t","e","n","t">>,  \* "persistent"
      <<"w","o","r","s","e","n","i","n","g">>   \* "worsening"
    >>
MED_FEVER_WORDS ==
    <<
      <<"f","e","v","e","r">>,  \* "fever"
      <<"t","e","m","p","e","r","a","t","u","r","e">>   \* "temperature"
    >>
MED_HEADACHE_WORDS ==
    <<
      <<"h","e","a","d","a","c","h","e">>,  \* "headache"
      <<"h","e","a","d"," ","p","a","i","n">>   \* "head pain"
    >>
MED_PAIN_WORDS ==
    <<
      <<"p","a","i","n">>,  \* "pain"
      <<"a","c","h","e">>   \* "ache"
    >>
MED_COLD_WORDS ==
    <<
      <<"c","o","l","d">>,  \* "cold"
      <<"c","o","u","g","h">>   \* "cough"
    >>

---------------------------------------------------------------------------
(* MedicalMCPServer: the helper methods.                                   *)

\* list[start:] for any integer start, as Python slices: a negative start
\* counts from the end, and either way the start is clipped to the list.
list_from(list, start) ==
    LET n == Len(list)
        first == IF start < 0
                 THEN (IF n + start < 0 THEN 0 ELSE n + start)
                 ELSE (IF start > n THEN n ELSE start)
    IN  SubSeq(list, first + 1, n)

\* A variant that tests the headache keywords before the fever keywords.
_identify_condition_headache_first(symptoms_lower) ==
    IF any_word_in(HEADACHE_WORDS, symptoms_lower) THEN s_headache
    ELSE IF any_word_in(FEVER_WORDS, symptoms_lower) THEN s_fever
    ELSE IF any_word_in(COUGH_WORDS, symptoms_lower) THEN s_cough
    ELSE IF any_word_in(COLD_WORDS, symptoms_lower) THEN s_cold
    ELSE IF any_word_in(STOMACH_WORDS, symptoms_lower) THEN s_stomach_upset
    ELSE IF any_word_in(PAIN_WORDS, symptoms_lower) THEN s_pain
    ELSE s_general

_identify_condition(symptoms_lower) ==
    IF any_word_in(FEVER_WORDS, symptoms_lower) THEN s_fever
    ELSE IF any_word_in(HEADACHE_WORDS, symptoms_lower) THEN s_headache
    ELSE IF any_word_in(COUGH_WORDS, symptoms_lower) THEN s_cough
    ELSE IF any_word_in(COLD_WORDS, symptoms_lower) THEN s_cold
    ELSE IF any_word_in(STOMACH_WORDS, symptoms_lower) THEN s_stomach_upset
    ELSE IF any_word_in(PAIN_WORDS, symptoms_lower) THEN s_pain
    ELSE s_general

\* A variant that tests the persistence words before the severity words.
_determine_triage_level_routine_first(symptoms_lower, condition) ==
    IF any_word_in(ROUTINE_WORDS, symptoms_lower) THEN "routine"
    ELSE IF any_word_in(URGENT_WORDS, symptoms_lower) THEN "urgent"
    ELSE "self_care"

\* A variant that escalates a severity word to an emergency.
_determine_triage_level_escalating(symptoms_lower, condition) ==
    IF any_word_in(URGENT_WORDS, symptoms_lower) THEN "emergency"
    ELSE IF any_word_in(ROUTINE_WORDS, symptoms_lower) THEN "routine"
    ELSE "self_care"

_determine_triage_level(symptoms_lower, condition) ==
    IF any_word_in(URGENT_WORDS, symptoms_lower) THEN "urgent"
    ELSE IF any_word_in(ROUTINE_WORDS, symptoms_lower) THEN "routine"
    ELSE "self_care"

\* Returns "" (the empty string) when nothing matches.
\* A variant that tests the cold keywords before the pain keywords.
_map_condition_to_medicine_cold_first(condition_lower) ==
    IF any_word_in(MED_FEVER_WORDS, condition_lower) THEN s_fever
    ELSE IF any_word_in(MED_HEADACHE_WORDS, condition_lower) THEN s_headache
    ELSE IF any_word_in(MED_COLD_WORDS, condition_lower) THEN s_cold
    ELSE IF any_word_in(MED_PAIN_WORDS, condition_lower) THEN s_pain
    ELSE << >>

_map_condition_to_medicine(condition_lower) ==
    IF any_word_in(MED_FEVER_WORDS, condition_lower) THEN s_fever
    ELSE IF any_word_in(MED_HEADACHE_WORDS, condition_lower) THEN s_headache
    ELSE IF any_word_in(MED_PAIN_WORDS, condition_lower) THEN s_pain
    ELSE IF any_word_in(MED_COLD_WORDS, condition_lower) THEN s_cold
    ELSE << >>

\* A variant that gives the same advice for every level.
_get_follow_up_advice_default(triage_level) ==
    "Consult healthcare professional if concerned"

_get_follow_up_advice(triage_level) ==
    LET advice ==
            [emergency |-> "Seek immediate medical attention",
             urgent |-> "See a doctor within 24 hours",
             routine |-> "Schedule appointment with doctor within 1-2 weeks if symptoms persist",
             self_care |-> "Monitor symptoms. See doctor if they worsen or persist beyond 3-5 days"]
    IN  IF triage_level \in DOMAIN advice THEN advice[triage_level]
        ELSE "Consult healthcare professional if concerned"

\* A variant that gives every condition the general list.
_get_warning_signs_general_only(condition) ==
    <<"Worsening symptoms", "New severe symptoms", "Signs of dehydration">>

_get_warning_signs(condition) ==
    LET warning_signs ==
            << <<s_fever, <<"Temperature above 103F (39.4C)",
                            "Persistent fever beyond 3 days",
                            "Difficulty breathing">> >>,
               <<s_headache, <<"Sudden severe headache",
                               "Headache with neck stiffness",
                               "Changes in vision">> >>,
               <<s_cough, <<"Blood in cough", "Difficulty breathing", "Chest pain">> >>,
               <<s_cold, <<"High fever", "Severe throat pain", "Ear pain">> >>,
               <<s_general, <<"Worsening symptoms", "New severe symptoms",
                              "Signs of dehydration">> >> >>
    IN  dict_get(warning_signs, condition, dict_get(warning_signs, s_general, << >>))

\* The cap of the session log.
MAX_SESSIONS == 100

\* A variant that trims to the oldest records: sessions[:100].
_log_session_keeps_oldest(log, session_data) ==
    LET grown == Append(log, session_data)
    IN  IF Len(grown) > MAX_SESSIONS THEN SubSeq(grown, 1, MAX_SESSIONS) ELSE grown

\* self.sessions after _log_session(session_data) on the log `log`.
_log_session(log, session_data) ==
    LET grown == Append(log, session_data)
    IN  IF Len(grown) > MAX_SESSIONS THEN list_from(grown, 0 - MAX_SESSIONS) ELSE grown

---------------------------------------------------------------------------
(* MedicalMCPServer: the tools.  Each operator is one call on a server     *)
(* whose log is `log`, at a time when datetime.now() answers `now`; it     *)
(* gives the returned result, the log after the call, the records the call  *)
(* handed to _log_session, and how often it asked datetime.now().          *)

SessionRecord(type, input, output, timestamp) ==
    [type |-> type, input |-> input, output |-> output, timestamp |-> timestamp]

\* A variant that logs every result it returns.
Returns_logged(result, log) ==
    [result |-> result,
     sessions |-> _log_session(log, SessionRecord("call", << >>, result, 0)),
     logged |-> <<SessionRecord("call", << >>, result, 0)>>,
     ticks |-> 0]

\* A call that returns `result` without logging.
Returns(result, log) ==
    [result |-> result, sessions |-> log, logged |-> << >>, ticks |-> 0]

\* A variant that appends without the cap.
LogsAndReturns_uncapped(result, record, log) ==
    [result |-> result, sessions |-> Append(log, record), logged |-> <<record>>,
     ticks |-> 1]

\* A call that logs `record` and then returns `result`.
LogsAndReturns(result, record, log) ==
    [result |-> result, sessions |-> _log_session(log, record), logged |-> <<record>>,
     ticks |-> 1]

\* A variant that stops at the first matched keyword.
detected_emergencies_first_only(symptoms_lower) ==
    LET all == SelectSeq(EMERGENCY_KEYWORDS,
                         LAMBDA keyword : str_contains(symptoms_lower, keyword))
    IN  IF all = << >> THEN << >> ELSE <<all[1]>>

\* The matched emergency keywords, in table order.
detected_emergencies(symptoms_lower) ==
    SelectSeq(EMERGENCY_KEYWORDS, LAMBDA keyword : str_contains(symptoms_lower, keyword))

s_Based_on_symptoms ==
    <<"B","a","s","e","d"," ","o","n"," ","s","y","m","p","t","o","m","s",":"," ">>

\* A variant of the emergency result with no disclaimer.
emergency_result_bare(red_flags) ==
    [triage_level |-> "emergency",
     message |-> "EMERGENCY DETECTED: Call 102/108 immediately or visit nearest hospital",
     action |-> "seek_immediate_help",
     detected_red_flags |-> red_flags,
     emergency_contacts |-> [ambulance |-> "102 / 108", police |-> "100", fire |-> "101"]]

\* The result of the emergency branch.
emergency_result(red_flags) ==
    [triage_level |-> "emergency",
     message |-> "EMERGENCY DETECTED: Call 102/108 immediately or visit nearest hospital",
     action |-> "seek_immediate_help",
     detected_red_flags |-> red_flags,
     emergency_contacts |-> [ambulance |-> "102 / 108", police |-> "100", fire |-> "101"],
     disclaimer |-> "This is a medical emergency. Get professional medical help immediately."]

\* A variant with no remedies for a tag outside the remedy table.
triage_result_no_default(symptoms, symptoms_lower) ==
    LET condition == _identify_condition(symptoms_lower)
        triage_level == _determine_triage_level(symptoms_lower, condition)
    IN  [triage_level |-> triage_level,
         condition |-> condition,
         assessment |-> s_Based_on_symptoms \o symptoms,
         medicine_suggestion |-> dict_get(BASIC_MEDICINES, condition, EmptyDict),
         home_remedies |-> dict_get(HOME_REMEDIES, condition, << >>),
         follow_up |-> _get_follow_up_advice(triage_level),
         warning_signs |-> _get_warning_signs(condition),
         disclaimer |-> "This is informational only. Consult a healthcare professional for medical advice."]

\* The result of the basic triage branch.
triage_result(symptoms, symptoms_lower) ==
    LET condition == _identify_condition(symptoms_lower)
        triage_level == _determine_triage_level(symptoms_lower, condition)
    IN  [triage_level |-> triage_level,
         condition |-> condition,
         assessment |-> s_Based_on_symptoms \o symptoms,
         medicine_suggestion |-> dict_get(BASIC_MEDICINES, condition, EmptyDict),
         home_remedies |->
             dict_get(HOME_REMEDIES, condition,
                      <<"Rest", "Stay hydrated", "Monitor symptoms">>),
         follow_up |-> _get_follow_up_advice(triage_level),
         warning_signs |-> _get_warning_signs(condition),
         disclaimer |-> "This is informational only. Consult a healthcare professional for medical advice."]

\* A variant whose result carries the time of the analysis.
analyze_symptoms_timestamped(symptoms, log, now) ==
    LET symptoms_lower == str_lower(symptoms)
        red_flags == detected_emergencies(symptoms_lower)
        result == triage_result(symptoms, symptoms_lower) @@ [analysis_timestamp |-> now]
    IN  IF red_flags # << >>
        THEN Returns(emergency_result(red_flags) @@ [analysis_timestamp |-> now], log)
        ELSE LogsAndReturns(result,
                            SessionRecord("symptom_analysis", symptoms, result, now), log)

analyze_symptoms(symptoms, log, now) ==
    LET symptoms_lower == str_lower(symptoms)
        red_flags == detected_emergencies(symptoms_lower)
        result == triage_result(symptoms, symptoms_lower)
    IN  IF red_flags # << >>
        THEN Returns(emergency_result(red_flags), log)
        ELSE LogsAndReturns(result,
                            SessionRecord("symptom_analysis", symptoms, result, now), log)

\* A variant that leaves the age restriction out of the warnings.
suggest_medicine_one_warning(condition, log, now) ==
    LET condition_lower == str_lower(condition)
        medicine_key == _map_condition_to_medicine(condition_lower)
        medicine_info == dict_get(BASIC_MEDICINES, medicine_key, EmptyDict)
        info_get(k, default) ==
            IF k \in DOMAIN medicine_info THEN medicine_info[k] ELSE default
        result ==
            [condition |-> condition,
             recommended_medicine |-> info_get("medicine", ""),
             dosage |-> info_get("dose", ""),
             frequency |-> info_get("frequency", "As needed"),
             max_daily |-> info_get("max_daily", ""),
             warnings |-> <<info_get("warning", "")>>,
             disclaimer |-> "Only use as directed. Consult pharmacist if unsure. Not for prescription medicines."]
    IN  IF medicine_info = EmptyDict
        THEN Returns(
               [message |-> "Please consult a pharmacist for specific medicine recommendations",
                general_advice |-> "Only use medicines as directed on the package",
                common_otc |-> "Paracetamol for fever/pain, ORS for dehydration",
                disclaimer |-> "This tool only suggests common OTC medicines for basic symptoms"],
               log)
        ELSE LogsAndReturns(result,
                            SessionRecord("medicine_suggestion", condition, result, now), log)

suggest_medicine(condition, log, now) ==
    LET condition_lower == str_lower(condition)
        medicine_key == _map_condition_to_medicine(condition_lower)
        medicine_info == dict_get(BASIC_MEDICINES, medicine_key, EmptyDict)
        info_get(k, default) ==
            IF k \in DOMAIN medicine_info THEN medicine_info[k] ELSE default
        warnings ==
            <<info_get("warning", "")>>
            \o (IF "age_restriction" \in DOMAIN medicine_info
                THEN <<medicine_info["age_restriction"]>> ELSE << >>)
        result ==
            [condition |-> condition,
             recommended_medicine |-> info_get("medicine", ""),
             dosage |-> info_get("dose", ""),
             frequency |-> info_get("frequency", "As needed"),
             max_daily |-> info_get("max_daily", ""),
             warnings |-> warnings,
             disclaimer |-> "Only use as directed. Consult pharmacist if unsure. Not for prescription medicines."]
    IN  IF medicine_info = EmptyDict
        THEN Returns(
               [message |-> "Please consult a pharmacist for specific medicine recommendations",
                general_advice |-> "Only use medicines as directed on the package",
                common_otc |-> "Paracetamol for fever/pain, ORS for dehydration",
                disclaimer |-> "This tool only suggests common OTC medicines for basic symptoms"],
               log)
        ELSE LogsAndReturns(result,
                            SessionRecord("medicine_suggestion", condition, result, now), log)

\* A variant that matches a key only as a whole.
matched_keys_whole_key(condition_lower) ==
    LET matches(i) == str_contains(condition_lower, HOME_REMEDIES[i][1])
        hits == SelectSeq([i \in 1..Len(HOME_REMEDIES) |-> i], matches)
    IN  [n \in 1..Len(hits) |-> HOME_REMEDIES[hits[n]][1]]

\* The keys of HOME_REMEDIES that match, in table order: the key, or a part
\* of the key between underscores, is in the text.
matched_keys(condition_lower) ==
    LET matches(i) ==
            LET key == HOME_REMEDIES[i][1]
            IN  \/ str_contains(condition_lower, key)
                \/ any_word_in(str_split(key, "_"), condition_lower)
        hits == SelectSeq([i \in 1..Len(HOME_REMEDIES) |-> i], matches)
    IN  [n \in 1..Len(hits) |-> HOME_REMEDIES[hits[n]][1]]

\* list.extend over a list of lists.
RECURSIVE concat_all(_)
concat_all(lists) ==
    IF lists = << >> THEN << >> ELSE Head(lists) \o concat_all(Tail(lists))

\* The first occurrence of each item, in order.
RECURSIVE unique_in_order(_)
unique_in_order(list) ==
    IF list = << >> THEN << >>
    ELSE LET front == unique_in_order(SubSeq(list, 1, Len(list) - 1))
             last == list[Len(list)]
         IN  IF \E i \in 1..Len(front) : front[i] = last THEN front
             ELSE Append(front, last)

\* A variant with the three remedies of the first version of the server.
general_remedies_of_three ==
    <<"Rest and stay hydrated",
      "Monitor your symptoms",
      "Seek medical advice if symptoms worsen">>

\* The remedies for a text that matches no key.
general_remedies ==
    <<"Rest and stay hydrated with plenty of fluids",
      "Monitor your symptoms carefully",
      "Seek medical advice if symptoms worsen or persist",
      "Maintain good hygiene and nutrition">>

get_home_remedies(condition, log, now) ==
    LET condition_lower == str_lower(condition)
        keys == matched_keys(condition_lower)
        remedies == concat_all([n \in 1..Len(keys) |-> dict_get(HOME_REMEDIES, keys[n], << >>)])
        unique_remedies == unique_in_order(remedies)
        none == unique_remedies = << >>
        result ==
            [condition |-> condition,
             matched_categories |-> IF none THEN <<s_general>> ELSE keys,
             remedies |-> IF none THEN general_remedies ELSE unique_remedies,
             general_tips |->
                 <<"Home remedies work best alongside proper rest",
                   "Stay hydrated throughout treatment",
                   "If symptoms worsen, seek medical help">>,
             disclaimer |-> "Home remedies are supportive care only. Not a substitute for professional medical advice",
             warning |-> "Seek medical help if symptoms are severe or worsen"]
    IN  LogsAndReturns(result, SessionRecord("home_remedies", condition, result, now), log)

\* A variant that takes the records it returns out of the log.
get_session_logs_taking(limit, log) ==
    [result |-> [total_sessions |-> Len(log),
                 recent_sessions |-> list_from(log, 0 - limit),
                 server_uptime |-> "Running"],
     sessions |-> SubSeq(log, 1, Len(log) - Len(list_from(log, 0 - limit))),
     logged |-> << >>,
     ticks |-> 0]

get_session_logs(limit, log) ==
    Returns([total_sessions |-> Len(log),
             recent_sessions |-> list_from(log, 0 - limit),
             server_uptime |-> "Running"],
            log)

\* The values of a request's params: None, a str, an int.
PyNone == [py_none |-> TRUE]
PyStr(s) == [py_str |-> s]
PyInt(n) == [py_int |-> n]
is_str(value) == "py_str" \in DOMAIN value
is_int(value) == "py_int" \in DOMAIN value
type_name(value) ==
    IF is_str(value) THEN "str" ELSE IF is_int(value) THEN "int" ELSE "NoneType"

\* What the places search (the googlemaps client) can answer: it raises, or
\* it returns a response holding a list of places.
PlaceFull ==
    [name |-> "Apollo Pharmacy", vicinity |-> "MG Road", rating |-> 4,
     opening_hours |-> [open_now |-> TRUE], place_id |-> "p1",
     geometry |-> [location |-> [lat |-> 12, lng |-> 77]]]
PlaceBare == [place_id |-> "p2"]
PlaceBroken == [place_id |-> "p3", geometry |-> [viewport |-> "v"]]
PlacesRaises == [raises |-> TRUE, error |-> "REQUEST_DENIED"]
PlacesAnswers(results) == [raises |-> FALSE, results |-> results]
PlacesOutcomes ==
    {PlacesRaises, PlacesAnswers(<< >>), PlacesAnswers(<<PlaceFull, PlaceBare>>),
     PlacesAnswers(<<PlaceFull, PlaceBroken>>)}

\* One entry of the chemists list, from one place of the response.
chemist_of(place) ==
    LET get(k, default) == IF k \in DOMAIN place THEN place[k] ELSE default
        hours == get("opening_hours", EmptyDict)
        entry ==
            [name |-> get("name", "Unknown"),
             address |-> get("vicinity", "Address not available"),
             rating |-> get("rating", "Not rated"),
             open_now |-> IF "open_now" \in DOMAIN hours THEN hours["open_now"]
                          ELSE "Unknown",
             place_id |-> get("place_id", "")]
    IN  IF "geometry" \in DOMAIN place
        THEN entry @@
             [maps_link |-> <<"https://maps.google.com/?q=",
                              place["geometry"]["location"]["lat"], ",",
                              place["geometry"]["location"]["lng"]>>,
              distance_km |-> "Calculating..."]
        ELSE entry

COMMON_CHAINS ==
    <<"Apollo Pharmacy", "MedPlus", "Netmeds", "1mg", "Guardian Pharmacy">>

\* The unset key (None), and the placeholder of the sample .env file.
KeyNone == "None"
KeyPlaceholder == "your_google_places_api_key_here"

\* A variant of the payload with the error text alone.
chemists_fallback_bare(e) == [error |-> <<"Failed to search chemists: ", e>>]

\* The payload of the except clause, from the text of the exception.
chemists_fallback(e) ==
    [error |-> <<"Failed to search chemists: ", e>>,
     fallback |-> "Try searching 'pharmacy near me' on Google Maps",
     common_chains |-> COMMON_CHAINS]

\* The text of the exception raised inside the try block, "" if none is:
\* None * 1000 raises, the search raises, or a place has a geometry with no
\* location.
search_exception(radius_km, places) ==
    IF ~is_int(radius_km)
    THEN "unsupported operand type(s) for *: 'NoneType' and 'int'"
    ELSE IF places.raises THEN places.error
    ELSE LET found == list_from(places.results, 0)
             first5 == SubSeq(found, 1, IF Len(found) > 5 THEN 5 ELSE Len(found))
         IN  IF \E i \in 1..Len(first5) :
                    /\ "geometry" \in DOMAIN first5[i]
                    /\ "location" \notin DOMAIN first5[i]["geometry"]
             THEN "'location'"
             ELSE ""

find_nearby_chemists(location, radius_km, api_key, places, log, now) ==
    IF api_key = KeyNone \/ api_key = "" \/ api_key = KeyPlaceholder
    THEN Returns(
           [error |-> "Google Places API key not configured",
            message |-> "Please add your Google Places API key to .env file",
            manual_search |-> <<"Search for 'pharmacy near ", location, "' on Google Maps">>,
            common_chains |-> COMMON_CHAINS],
           log)
    ELSE LET e == search_exception(radius_km, places)
             raised == e # ""
             found == list_from(places.results, 0)
             first5 == SubSeq(found, 1, IF Len(found) > 5 THEN 5 ELSE Len(found))
             chemists == [i \in 1..Len(first5) |-> chemist_of(first5[i])]
             result ==
                 IF raised
                 THEN chemists_fallback(e)
                 ELSE [location |-> location,
                       radius_km |-> radius_km.py_int,
                       total_found |-> Len(chemists),
                       chemists |-> chemists,
                       search_timestamp |-> now,
                       note |-> "Call ahead to confirm medicine availability"]
             stamp == IF raised THEN now ELSE now + 1
             out == LogsAndReturns(result,
                                   SessionRecord("chemist_search", location, result, stamp),
                                   log)
         IN  [out EXCEPT !.ticks = IF raised THEN 1 ELSE 2]

---------------------------------------------------------------------------
(* handle_mcp_request: the dispatcher.                                     *)

\* The params of a request: a dict of values, or None.
params_get(params, k, default) == IF k \in DOMAIN params THEN params[k] ELSE default

TOOLS ==
    <<[name |-> "analyze_symptoms", parameters |-> {"symptoms", "age", "location"}],
      [name |-> "suggest_medicine", parameters |-> {"condition", "age"}],
      [name |-> "get_remedies", parameters |-> {"condition"}],
      [name |-> "find_chemists", parameters |-> {"location", "radius_km"}],
      [name |-> "get_session_logs", parameters |-> {"limit"}]>>

\* A variant of the result with the error text alone.
ServerError_bare(e) == [error |-> <<"Server error: ", e>>]

\* The result the except clause builds from an exception.
ServerError(e) ==
    [error |-> <<"Server error: ", e>>,
     disclaimer |-> "Please consult a healthcare professional"]

\* The text of the AttributeError of value.lower() on a value that is no str.
no_lower(value) == <<"'", type_name(value), "' object has no attribute 'lower'">>

handle_mcp_request(method, params, api_key, places, log, now) ==
    IF /\ method \in {"analyze_symptoms", "suggest_medicine", "get_remedies",
                      "find_chemists", "get_session_logs"}
       /\ params = PyNone
    THEN Returns(ServerError("'NoneType' object has no attribute 'get'"), log)
    ELSE CASE method = "analyze_symptoms" ->
                LET symptoms == params_get(params, "symptoms", PyStr(<< >>))
                IN  IF is_str(symptoms)
                    THEN analyze_symptoms(symptoms.py_str, log, now)
                    ELSE Returns(ServerError(no_lower(symptoms)), log)
           [] method = "suggest_medicine" ->
                LET condition == params_get(params, "condition", PyStr(<< >>))
                IN  IF is_str(condition)
                    THEN suggest_medicine(condition.py_str, log, now)
                    ELSE Returns(ServerError(no_lower(condition)), log)
           [] method = "get_remedies" ->
                LET condition == params_get(params, "condition", PyStr(<< >>))
                IN  IF is_str(condition)
                    THEN get_home_remedies(condition.py_str, log, now)
                    ELSE Returns(ServerError(no_lower(condition)), log)
           [] method = "find_chemists" ->
                find_nearby_chemists(params_get(params, "location", PyStr(<< >>)).py_str,
                                     params_get(params, "radius_km", PyInt(5)),
                                     api_key, places, log, now)
           [] method = "get_session_logs" ->
                LET limit == params_get(params, "limit", PyInt(10))
                IN  IF is_int(limit)
                    THEN get_session_logs(limit.py_int, log)
                    ELSE Returns(ServerError(<<"bad operand type for unary -: '",
                                               type_name(limit), "'">>), log)
           [] method = "list_tools" -> Returns([tools |-> TOOLS], log)
           [] OTHER -> Returns([error |-> <<"Unknown method: ", method>>], log)

---------------------------------------------------------------------------
(* mcp_endpoint: the POST /mcp handler of the web server.                  *)

\* The body of a request: no bytes, bytes that are no JSON, a JSON list, or
\* a JSON object `data` (a dict that holds some of method, params and id).
BodyEmpty == [kind |-> "empty"]
BodyNotJson == [kind |-> "invalid"]
BodyJsonList == [kind |-> "list"]
BodyJson(data) == [kind |-> "dict", data |-> data]

\* The response that carries a protocol-level error.
error_envelope(request_id, code, message) ==
    [id |-> request_id, error |-> [code |-> code, message |-> message], jsonrpc |-> "2.0"]

\* A variant that lifts the error of a result into the protocol-level field.
result_envelope_lifting_error(request_id, result) ==
    IF "error" \in DOMAIN result
    THEN [id |-> request_id, error |-> [code |-> -32601, message |-> result.error],
          jsonrpc |-> "2.0"]
    ELSE [id |-> request_id, result |-> result, jsonrpc |-> "2.0"]

\* The response that carries the result of handle_mcp_request.
result_envelope(request_id, result) ==
    [id |-> request_id, result |-> result, jsonrpc |-> "2.0"]

\* A variant that takes every method as given.
not_method_never(method) == FALSE

\* `not method`: the method is the empty string.
not_method(method) == method = ""

\* An answer of the endpoint that called no handler.
Answers(response, log, ticks) ==
    [response |-> response, called |-> FALSE, call |-> EmptyDict,
     sessions |-> log, logged |-> << >>, ticks |-> ticks]

\* One POST /mcp with `body`, at a time when datetime.now() answers `now`:
\* the response, whether handle_mcp_request was called and with what, the
\* log after it, the records logged, and how often datetime.now() was asked
\* (once for the default of the request id, whether the id is given or not).
mcp_endpoint(body, api_key, places, log, now) ==
    CASE body.kind = "empty" ->
           Answers(error_envelope(PyNone, -32603,
                                  [str_of |-> "HTTPException(400, 'Empty request body')"]),
                   log, 0)
      [] body.kind = "invalid" ->
           Answers(error_envelope(PyNone, -32700, "Parse error"), log, 0)
      [] body.kind = "list" ->
           Answers(error_envelope(PyNone, -32603,
                                  "'list' object has no attribute 'get'"),
                   log, 0)
      [] OTHER ->
           LET data == body.data
               method == params_get(data, "method", "")
               params == params_get(data, "params", EmptyDict)
               request_id == params_get(data, "id", [req |-> now])
               Handled(out) ==
                   [response |-> result_envelope(request_id, out.result),
                    called |-> TRUE,
                    call |-> [method |-> method, params |-> params, result |-> out.result],
                    sessions |-> out.sessions,
                    logged |-> out.logged,
                    ticks |-> 1 + out.ticks]
           IN  IF not_method(method)
               THEN Answers(error_envelope(request_id, -32601, "Method required"), log, 1)
               ELSE \* the one call of handle_mcp_request
                    LET outs == {handle_mcp_request(method, params, api_key, places,
                                                    log, now + 1)}
                    IN  Handled(CHOOSE out \in outs : TRUE)

---------------------------------------------------------------------------
(* src/src/main.py: the first version of the server (the MVP).  Its tables *)
(* are its own; get_medicine_suggestion writes into its medicine table, so *)
(* the table is part of the state.                                         *)

MVP_BASIC_MEDICINES ==
    << <<s_fever,
         [medicine |-> "Paracetamol",
          dose |-> "500mg every 6-8 hours",
          max_daily |-> "4g (4000mg)",
          warning |-> "Don't exceed maximum daily dose"]>>,
       <<s_headache,
         [medicine |-> "Paracetamol or Ibuprofen",
          dose |-> "Paracetamol: 500mg OR Ibuprofen: 200-400mg",
          frequency |-> "every 6-8 hours",
          warning |-> "Don't take both together"]>>,
       <<s_pain,
         [medicine |-> "Ibuprofen",
          dose |-> "200-400mg every 6-8 hours",
          max_daily |-> "1200mg",
          warning |-> "Take with food to avoid stomach upset"]>> >>

MVP_HOME_REMEDIES ==
    << <<s_fever,
         <<"Rest and drink plenty of fluids", "Cool compress on forehead",
           "Light, loose clothing", "Room temperature bath">> >>,
       <<s_cough,
         <<"Honey and warm water", "Steam inhalation", "Gargle with salt water",
           "Stay hydrated">> >>,
       <<s_headache,
         <<"Rest in dark, quiet room", "Cold or warm compress", "Stay hydrated",
           "Gentle neck massage">> >>,
       <<s_cold,
         <<"Rest and sleep", "Warm fluids (tea, soup)", "Saline nasal rinse",
           "Humidifier or steam">> >> >>

\* A variant with a keyword of its own.
MVP_EMERGENCY_KEYWORDS_with_migraine ==
    <<
      <<"c","h","e","s","t"," ","p","a","i","n">>,  \* "chest pain"
      <<"d","i","f","f","i","c","u","l","t","y"," ","b","r","e","a","t","h","i","n","g">>,  \* "difficulty breathing"
      <<"u","n","c","o","n","s","c","i","o","u","s">>,  \* "unconscious"
      <<"s","e","v","e","r","e"," ","b","l","e","e","d","i","n","g">>,  \* "severe bleeding"
      <<"s","t","r","o","k","e">>,  \* "stroke"
      <<"h","e","a","r","t"," ","a","t","t","a","c","k">>,  \* "heart attack"
      <<"p","o","i","s","o","n","i","n","g">>,  \* "poisoning"
      <<"s","e","v","e","r","e"," ","h","e","a","d","a","c","h","e">>,  \* "severe headache"
      <<"h","i","g","h"," ","f","e","v","e","r"," ","a","b","o","v","e"," ","1","0","3">>,  \* "high fever above 103"
      <<"s","e","i","z","u","r","e">>,  \* "seizure"
      <<"i","n","t","e","n","s","e"," ","m","i","g","r","a","i","n","e">>   \* "intense migraine"
    >>

MVP_EMERGENCY_KEYWORDS ==
    <<
      <<"c","h","e","s","t"," ","p","a","i","n">>,  \* "chest pain"
      <<"d","i","f","f","i","c","u","l","t","y"," ","b","r","e","a","t","h","i","n","g">>,  \* "difficulty breathing"
      <<"u","n","c","o","n","s","c","i","o","u","s">>,  \* "unconscious"
      <<"s","e","v","e","r","e"," ","b","l","e","e","d","i","n","g">>,  \* "severe bleeding"
      <<"s","t","r","o","k","e">>,  \* "stroke"
      <<"h","e","a","r","t"," ","a","t","t","a","c","k">>,  \* "heart attack"
      <<"p","o","i","s","o","n","i","n","g">>,  \* "poisoning"
      <<"s","e","v","e","r","e"," ","h","e","a","d","a","c","h","e">>,  \* "severe headache"
      <<"h","i","g","h"," ","f","e","v","e","r"," ","a","b","o","v","e"," ","1","0","3">>,  \* "high fever above 103"
      <<"s","e","i","z","u","r","e">>   \* "seizure"
    >>

MVP_FEVER_WORDS ==
    <<
      <<"f","e","v","e","r">>,  \* "fever"
      <<"t","e","m","p","e","r","a","t","u","r","e">>   \* "temperature"
    >>
MVP_HEADACHE_WORDS ==
    <<
      <<"h","e","a","d","a","c","h","e">>,  \* "headache"
      <<"h","e","a","d"," ","p","a","i","n">>   \* "head pain"
    >>
MVP_COUGH_WORDS ==
    <<
      <<"c","o","u","g","h">>,  \* "cough"
      <<"c","o","u","g","h","i","n","g">>   \* "coughing"
    >>
MVP_COLD_WORDS ==
    <<
      <<"c","o","l","d">>,  \* "cold"
      <<"r","u","n","n","y"," ","n","o","s","e">>,  \* "runny nose"
      <<"s","o","r","e"," ","t","h","r","o","a","t">>   \* "sore throat"
    >>
MVP_PAIN_WORDS ==
    <<
      <<"p","a","i","n">>,  \* "pain"
      <<"a","c","h","e">>   \* "ache"
    >>
s_mild == <<"m","i","l","d">>

\* The tag and the triage level of the basic triage logic.
mvp_triage(symptoms_lower) ==
    IF any_word_in(MVP_FEVER_WORDS, symptoms_lower)
    THEN [condition |-> s_fever,
          triage |-> IF str_contains(symptoms_lower, s_mild) THEN "self_care"
                     ELSE "routine"]
    ELSE IF any_word_in(MVP_HEADACHE_WORDS, symptoms_lower)
    THEN [condition |-> s_headache, triage |-> "self_care"]
    ELSE IF any_word_in(MVP_COUGH_WORDS, symptoms_lower)
    THEN [condition |-> s_cough, triage |-> "self_care"]
    ELSE IF any_word_in(MVP_COLD_WORDS, symptoms_lower)
    THEN [condition |-> s_cold, triage |-> "self_care"]
    ELSE [condition |-> s_general, triage |-> "routine"]

\* analyze_symptoms_simple(symptoms) when the medicine table is `medicines`.
analyze_symptoms_simple(symptoms, medicines) ==
    LET symptoms_lower == str_lower(symptoms)
        found == mvp_triage(symptoms_lower)
    IN  IF any_word_in(MVP_EMERGENCY_KEYWORDS, symptoms_lower)
        THEN [triage_level |-> "emergency",
              message |-> "EMERGENCY: Call 102/108 immediately or visit nearest hospital",
              action |-> "seek_immediate_help",
              disclaimer |-> "This is an emergency. Get professional medical help immediately."]
        ELSE [triage_level |-> found.triage,
              condition |-> found.condition,
              medicine_suggestion |-> dict_get(medicines, found.condition, EmptyDict),
              home_remedies |->
                  dict_get(MVP_HOME_REMEDIES, found.condition,
                           <<"Rest", "Stay hydrated", "Monitor symptoms">>),
              follow_up |-> "See a doctor if symptoms worsen or persist beyond 3 days",
              disclaimer |-> "This is informational only. Consult a healthcare professional for medical advice."]

\* d[k] = v on a dict that has the key k.
dict_set(d, k, v) == [i \in 1..Len(d) |-> IF d[i][1] = k THEN <<k, v>> ELSE d[i]]

\* get_medicine_suggestion(condition) when the medicine table is
\* `medicines`: the result, and the table after the call.  medicine_info is
\* the record in the table itself, so the assignment of its disclaimer is a
\* write into the table.
get_medicine_suggestion(condition, medicines) ==
    LET condition_lower == str_lower(condition)
        key == IF any_word_in(MVP_FEVER_WORDS, condition_lower) THEN s_fever
               ELSE IF any_word_in(MVP_HEADACHE_WORDS, condition_lower) THEN s_headache
               ELSE IF any_word_in(MVP_PAIN_WORDS, condition_lower) THEN s_pain
               ELSE << >>
        medicine_info ==
            [disclaimer |-> "Only use as directed. Consult pharmacist if unsure."]
            @@ dict_get(medicines, key, EmptyDict)
    IN  IF key = << >>
        THEN [result |->
                  [message |-> "Please consult a pharmacist for specific medicine recommendations",
                   general_advice |-> "Only use medicines as directed on the package",
                   disclaimer |-> "This tool only suggests common OTC medicines for basic symptoms"],
              medicines |-> medicines]
        ELSE [result |-> medicine_info,
              medicines |-> dict_set(medicines, key, medicine_info)]

get_home_remedies_simple(condition) ==
    LET condition_lower == str_lower(condition)
        hits == SelectSeq([i \in 1..Len(MVP_HOME_REMEDIES) |-> i],
                          LAMBDA i : str_contains(condition_lower, MVP_HOME_REMEDIES[i][1]))
        remedies == concat_all([n \in 1..Len(hits) |-> MVP_HOME_REMEDIES[hits[n]][2]])
    IN  [condition |-> condition,
         remedies |-> IF remedies = << >>
                      THEN <<"Rest and stay hydrated", "Monitor your symptoms",
                             "Seek medical advice if symptoms worsen">>
                      ELSE remedies,
         disclaimer |-> "Home remedies are not a substitute for professional medical advice",
         warning |-> "Seek medical help if symptoms are severe or worsen"]

\* A variant of the descriptor that also lists find_chemists.
MVP_TOOLS_with_chemists ==
    <<[name |-> "analyze_symptoms", parameters |-> {"symptoms", "age"}],
      [name |-> "suggest_medicine", parameters |-> {"condition"}],
      [name |-> "get_remedies", parameters |-> {"condition"}],
      [name |-> "find_chemists", parameters |-> {"location", "radius_km"}]>>

\* The tools of the list_tools branch.
MVP_TOOLS ==
    <<[name |-> "analyze_symptoms", parameters |-> {"symptoms", "age"}],
      [name |-> "suggest_medicine", parameters |-> {"condition"}],
      [name |-> "get_remedies", parameters |-> {"condition"}]>>

\* The result and the table after the branch of `method`, or the text of
\* the exception that `.lower()` raises on a value that is no str.
mvp_route(method, params, medicines) ==
    LET value(k) == params_get(params, k, PyStr(<< >>))
        Gives(result) == [raised |-> FALSE, result |-> result, medicines |-> medicines]
        Raises(v) == [raised |-> TRUE, error |-> no_lower(v), medicines |-> medicines]
    IN  CASE method = "analyze_symptoms" ->
               IF is_str(value("symptoms"))
               THEN Gives(analyze_symptoms_simple(value("symptoms").py_str, medicines))
               ELSE Raises(value("symptoms"))
          [] method = "suggest_medicine" ->
               IF is_str(value("condition"))
               THEN [raised |-> FALSE]
                    @@ get_medicine_suggestion(value("condition").py_str, medicines)
               ELSE Raises(value("condition"))
          [] method = "get_remedies" ->
               IF is_str(value("condition"))
               THEN Gives(get_home_remedies_simple(value("condition").py_str))
               ELSE Raises(value("condition"))
          [] method = "list_tools" -> Gives([tools |-> MVP_TOOLS])
          [] OTHER -> Gives([error |-> <<"Unknown method: ", method>>])

\* One POST /mcp of the MVP with the validated request (method, params or
\* None, id or None) when the medicine table is `medicines`: the response
\* and the table after it.
mvp_mcp_endpoint(request, medicines) ==
    LET params == IF request.params = PyNone THEN EmptyDict ELSE request.params
        routes == {mvp_route(request.method, params, medicines)}
        Sent(route) ==
            [response |->
                 IF route.raised
                 THEN error_envelope(request.id, -32603, route.error)
                 ELSE result_envelope(request.id, route.result),
             medicines |-> route.medicines]
    IN  Sent(CHOOSE route \in routes : TRUE)

---------------------------------------------------------------------------
(* The request texts.                                                      *)

\* Words and phrases that requests are put together from, with one space
\* between two of them: put together they form more keywords ("severe
\* headache", "high fever") and keywords inside others ("ache", "pain").
Words ==
    {
      <<"s","e","v","e","r","e">>,  \* "severe"
      <<"h","e","a","d","a","c","h","e">>,  \* "headache"
      <<"f","e","v","e","r">>,  \* "fever"
      <<"h","i","g","h">>,  \* "high"
      <<"c","h","e","s","t"," ","p","a","i","n">>,  \* "chest pain"
      <<"d","i","f","f","i","c","u","l","t","y"," ","b","r","e","a","t","h","i","n","g">>,  \* "difficulty breathing"
      <<"c","o","u","g","h">>,  \* "cough"
      <<"p","e","r","s","i","s","t","e","n","t">>   \* "persistent"
    }

\* The most words and phrases in one request text.
MaxWords == 2

RECURSIVE Phrases(_)
Phrases(n) ==
    IF n = 1 THEN Words
    ELSE Phrases(n - 1) \cup {p \o <<" ">> \o w : p \in Phrases(n - 1), w \in Words}

\* Texts of their own: the empty text, texts with no keyword, keywords of
\* every helper, a keyword inside a longer word, and a text with LONG_S.
PlainTexts ==
    {
      << >>,  \* ""
      <<"I"," ","h","a","v","e"," ","f","e","v","e","r">>,  \* "I have fever"
      <<"t","i","r","e","d">>,  \* "tired"
      <<"p","h","o","t","o">>,  \* "photo"
      <<"s","t","o","m","a","c","h"," ","a","c","h","e">>,  \* "stomach ache"
      <<"r","u","n","n","y"," ","n","o","s","e">>,  \* "runny nose"
      <<"h","e","a","d"," ","p","a","i","n">>,  \* "head pain"
      <<"h","i","g","h"," ","f","e","v","e","r"," ","a","b","o","v","e"," ","1","0","3">>,  \* "high fever above 103"
      <<"i","n","t","e","n","s","e"," ","m","i","g","r","a","i","n","e">>,  \* "intense migraine"
      <<"w","o","r","s","e","n","i","n","g"," ","c","o","l","d">>,  \* "worsening cold"
      <<"e","x","t","r","e","m","e"," ","n","a","u","s","e","a">>,  \* "extreme nausea"
      <<"c","o","l","d"," ","a","n","d"," ","c","o","u","g","h">>,  \* "cold and cough"
      <<"m","y"," ","b","a","c","k"," ","h","u","r","t","s">>,  \* "my back hurts"
      <<"LONG_S","t","r","o","k","e">>   \* "ſtroke"
    }

\* Every emergency keyword alone and after another symptom.
EmergencyTexts ==
    {EMERGENCY_KEYWORDS[i] : i \in 1..Len(EMERGENCY_KEYWORDS)}
    \cup {<<"c","o","u","g","h"," ","a","n","d">> \o <<" ">> \o EMERGENCY_KEYWORDS[i] : i \in 1..Len(EMERGENCY_KEYWORDS)}

\* Texts in upper and mixed case.
CasedTexts ==
    {
      <<"S","e","v","e","r","e"," ","C","h","e","s","t"," ","P","a","i","n">>,  \* "Severe Chest Pain"
      <<"F","E","V","E","R">>,  \* "FEVER"
      <<"H","e","a","d","A","c","h","e"," ","a","n","d"," ","F","e","v","e","r">>,  \* "HeadAche and Fever"
      <<"S","T","R","O","K","E">>,  \* "STROKE"
      <<"U","n","b","e","a","r","a","b","l","e"," ","C","O","U","G","H">>,  \* "Unbearable COUGH"
      <<"S","t","o","m","a","c","h"," ","U","p","s","e","t">>   \* "Stomach Upset"
    }

Texts == Phrases(MaxWords) \cup PlainTexts \cup EmergencyTexts \cup CasedTexts

\* The texts of the requests to the dispatcher.
ServerTexts ==
    {
      <<"s","e","v","e","r","e"," ","c","h","e","s","t"," ","p","a","i","n"," ","a","n","d"," ","d","i","f","f","i","c","u","l","t","y"," ","b","r","e","a","t","h","i","n","g">>,  \* "severe chest pain and difficulty breathing"
      <<"I"," ","h","a","v","e"," ","f","e","v","e","r">>,  \* "I have fever"
      <<"c","o","l","d"," ","a","n","d"," ","c","o","u","g","h">>,  \* "cold and cough"
      <<"t","i","r","e","d">>   \* "tired"
    }

---------------------------------------------------------------------------
(* The server as a state machine.                                          *)

\* The tools that take the request text.
TextTools == {"analyze_symptoms", "suggest_medicine", "get_remedies"}

NoCall == [method |-> "none", params |-> PyNone, result |-> EmptyDict]
NoExchange == [request |-> [kind |-> "none"], response |-> EmptyDict]

\* The state after MedicalMCPServer() with the environment's API key `key`,
\* for a behaviour whose requests carry one of `texts`.
\* The most threads that run _log_session at once.
MaxThreads == 2

Threads == 1..MaxThreads

Start(texts, keys) ==
    /\ sessions = << >>
    /\ clock = 0
    /\ appended = << >>
    /\ text \in texts
    /\ google_api_key \in keys
    /\ lastCall = NoCall
    /\ returned = [m \in TextTools |-> {}]
    /\ exchange = NoExchange
    /\ mvp_medicines = MVP_BASIC_MEDICINES
    /\ mvp_exchange = NoExchange
    /\ pc = [t \in Threads |-> "idle"]
    /\ slice = [t \in Threads |-> << >>]

\* The params that carry the request text.
TextParams == {[symptoms |-> PyStr(text)], [condition |-> PyStr(text)]}

\* One handle_mcp_request(method, params) call, the places search answering
\* `places` if it is asked.
Request(method, params, places) ==
    LET out == handle_mcp_request(method, params, google_api_key, places, sessions, clock)
    IN  /\ sessions' = out.sessions
        /\ clock' = clock + out.ticks
        /\ appended' = appended \o out.logged
        /\ lastCall' = [method |-> method, params |-> params, result |-> out.result]
        /\ returned' = IF method \in TextTools /\ params \in TextParams
                       THEN [returned EXCEPT ![method] = @ \cup {out.result}]
                       ELSE returned
        /\ UNCHANGED <<text, google_api_key, exchange, mvp_medicines, mvp_exchange,
                       pc, slice>>

\* The most logging calls in one behaviour.
MaxCalls == 2

AnalyzeSymptoms ==
    /\ Len(appended) < MaxCalls
    /\ Request("analyze_symptoms", [symptoms |-> PyStr(text)], PlacesRaises)

SuggestMedicine ==
    /\ Len(appended) < MaxCalls
    /\ Request("suggest_medicine", [condition |-> PyStr(text)], PlacesRaises)

GetRemedies ==
    /\ Len(appended) < MaxCalls
    /\ Request("get_remedies", [condition |-> PyStr(text)], PlacesRaises)

FindChemists ==
    /\ Len(appended) < MaxCalls
    /\ \E places \in PlacesOutcomes :
           Request("find_chemists", [location |-> PyStr(text)], places)

\* The limits asked of get_session_logs go up to MaxLimit.
MaxLimit == 3

GetSessionLogs ==
    \E params \in {EmptyDict} \cup {[limit |-> PyInt(n)] : n \in 0..MaxLimit} :
        Request("get_session_logs", params, PlacesRaises)

ListTools == Request("list_tools", EmptyDict, PlacesRaises)

UnknownMethod == Request("diagnose", EmptyDict, PlacesRaises)

NullParams ==
    \E method \in {"analyze_symptoms", "get_session_logs", "list_tools"} :
        Request(method, PyNone, PlacesRaises)

\* Requests whose params hold a value of another type than the tool's.
IllTyped ==
    {<<"analyze_symptoms", [symptoms |-> PyNone]>>,
     <<"analyze_symptoms", [symptoms |-> PyInt(5)]>>,
     <<"suggest_medicine", [condition |-> PyInt(5)]>>,
     <<"get_remedies", [condition |-> PyNone]>>,
     <<"get_session_logs", [limit |-> PyNone]>>,
     <<"get_session_logs", [limit |-> PyStr(<<"2">>)]>>,
     <<"find_chemists", [location |-> PyStr(text), radius_km |-> PyNone]>>}

BadParams ==
    /\ Len(appended) < MaxCalls
    /\ \E call \in IllTyped : Request(call[1], call[2], PlacesAnswers(<< >>))

\* The dispatcher serving requests of every method.
Init == Start(ServerTexts, {KeyNone, KeyPlaceholder, "AIza-key"})

Next ==
    \/ AnalyzeSymptoms
    \/ SuggestMedicine
    \/ GetRemedies
    \/ FindChemists
    \/ GetSessionLogs
    \/ ListTools
    \/ UnknownMethod
    \/ NullParams
    \/ BadParams

Spec == Init /\ [][Next]_vars

\* One POST /mcp with `body`, the places search answering `places` if it is
\* asked.
Post(body, places) ==
    \E web \in {mcp_endpoint(body, google_api_key, places, sessions, clock)} :
        /\ exchange' = [request |-> body, response |-> web.response]
        /\ sessions' = web.sessions
        /\ clock' = clock + web.ticks
        /\ appended' = appended \o web.logged
        /\ lastCall' = IF web.called THEN web.call ELSE lastCall
        /\ returned' = IF web.called /\ web.call.method \in TextTools
                          /\ web.call.params \in TextParams
                       THEN [returned EXCEPT ![web.call.method] = @ \cup {web.call.result}]
                       ELSE returned
        /\ UNCHANGED <<text, google_api_key, mvp_medicines, mvp_exchange, pc, slice>>

\* The most timestamps handed out in a behaviour of posts.
MaxClock == 3

\* The ids of the requests (a request may come without one).
RequestIds == {PyStr(<<"1">>), PyStr(<<"a","b","c">>)}

\* The request objects with `fields`, with and without an id.
WithIds(fields) == {fields} \cup {fields @@ [id |-> i] : i \in RequestIds}

PostTool ==
    /\ clock < MaxClock
    /\ \E data \in WithIds([method |-> "analyze_symptoms", params |-> [symptoms |-> PyStr(text)]])
                \cup {[method |-> "get_remedies", params |-> [condition |-> PyStr(text)]],
                      [method |-> "get_session_logs"],
                      [method |-> "list_tools", id |-> PyStr(<<"1">>)]} :
           Post(BodyJson(data), PlacesRaises)

\* Names that are none of the six methods.
OtherNames == {"diagnose", "Analyze_Symptoms", "analyze_symptoms ", "tools/list"}

PostUnknownMethod ==
    /\ clock < MaxClock
    /\ \E name \in OtherNames :
       \E data \in WithIds([method |-> name])
                    \cup {[method |-> name, params |-> PyNone],
                          [method |-> name, params |-> [symptoms |-> PyStr(text)]]} :
           Post(BodyJson(data), PlacesRaises)

PostNoMethod ==
    /\ clock < MaxClock
    /\ \E data \in WithIds(EmptyDict) \cup WithIds([method |-> ""])
                    \cup {[params |-> [symptoms |-> PyStr(text)]],
                          [method |-> "", params |-> [condition |-> PyStr(text)]]} :
           Post(BodyJson(data), PlacesRaises)

PostMalformed ==
    \E body \in {BodyEmpty, BodyNotJson, BodyJsonList} : Post(body, PlacesRaises)

\* The texts of the posts.
WebTexts ==
    {
      <<"I"," ","h","a","v","e"," ","f","e","v","e","r">>,  \* "I have fever"
      <<"t","i","r","e","d">>   \* "tired"
    }

\* The web server serving posts.
InitWeb == Start(WebTexts, {KeyNone})

NextWeb ==
    \/ PostTool
    \/ PostUnknownMethod
    \/ PostNoMethod
    \/ PostMalformed

SpecWeb == InitWeb /\ [][NextWeb]_vars

\* The three text tools on every text of Texts.
InitText == Start(Texts, {KeyNone})

NextText ==
    \/ AnalyzeSymptoms
    \/ SuggestMedicine
    \/ GetRemedies

SpecText == InitText /\ [][NextText]_vars

\* The log filling up beyond its cap: get_remedies, which logs every call,
\* and get_session_logs reading it.
MaxAppends == 105

LogAppend ==
    /\ Len(appended) < MaxAppends
    /\ Request("get_remedies", [condition |-> PyStr(text)], PlacesRaises)

\* get_session_logs with the default limit.
LogRead == Request("get_session_logs", EmptyDict, PlacesRaises)

InitLog == Start(ServerTexts, {KeyNone})

NextLog ==
    \/ LogAppend
    \/ LogRead

SpecLog == InitLog /\ [][NextLog]_vars

\* One POST /mcp of the MVP with the validated request.
MvpPost(request) ==
    \E sent \in {mvp_mcp_endpoint(request, mvp_medicines)} :
        /\ mvp_exchange' = [request |-> request, response |-> sent.response]
        /\ mvp_medicines' = sent.medicines
        /\ UNCHANGED <<sessions, clock, appended, text, lastCall, returned,
                       google_api_key, exchange, pc, slice>>

\* The ids of the requests to the MVP: none, or a string.
MvpIds == {PyNone} \cup RequestIds

MvpAnalyze ==
    \E id \in MvpIds :
        MvpPost([method |-> "analyze_symptoms", params |-> [symptoms |-> PyStr(text)],
                 id |-> id])

MvpSuggest ==
    \E id \in MvpIds :
        MvpPost([method |-> "suggest_medicine", params |-> [condition |-> PyStr(text)],
                 id |-> id])

MvpRemedies ==
    MvpPost([method |-> "get_remedies", params |-> [condition |-> PyStr(text)],
             id |-> PyNone])

MvpListTools ==
    \E id \in MvpIds :
        MvpPost([method |-> "list_tools", params |-> PyNone, id |-> id])

MvpUnknownMethod ==
    \E name \in {"", "diagnose", "find_chemists"} :
        MvpPost([method |-> name, params |-> PyNone, id |-> PyStr(<<"1">>)])

\* Requests with no params, and requests whose params hold a value that is
\* no str.
MvpBadParams ==
    \E method \in TextTools :
    \E params \in {PyNone, [symptoms |-> PyInt(5), condition |-> PyNone]} :
        MvpPost([method |-> method, params |-> params, id |-> PyStr(<<"1">>)])

\* The texts of the requests to the two servers.
MvpTexts ==
    {
      <<"I"," ","h","a","v","e"," ","f","e","v","e","r">>,  \* "I have fever"
      <<"M","i","l","d"," ","H","e","a","d","a","c","h","e">>,  \* "Mild Headache"
      <<"b","a","c","k"," ","a","c","h","e">>,  \* "back ache"
      <<"t","i","r","e","d">>   \* "tired"
    }

\* The MVP and the web server of the extended server, each serving posts.
InitMvp == Start(MvpTexts, {KeyNone})

NextMvp ==
    \/ MvpAnalyze
    \/ MvpSuggest
    \/ MvpRemedies
    \/ MvpListTools
    \/ MvpUnknownMethod
    \/ MvpBadParams
    \/ PostTool
    \/ PostMalformed

SpecMvp == InitMvp /\ [][NextMvp]_vars

\* The two servers analysing the same text.
InitTwin == Start(Texts, {KeyNone})

NextTwin ==
    \/ MvpAnalyze
    \/ AnalyzeSymptoms

SpecTwin == InitTwin /\ [][NextTwin]_vars

\* _log_session run by several threads at once, with no lock: each thread
\* takes the statements of _log_session one at a time, the append, the test
\* of the length, the read of the slice and the assignment of self.sessions,
\* and the threads interleave between them.

\* The most free places of the log when the threads start.
MaxRoom == 2

\* The record that the get_remedies call at time `now` hands to _log_session.
remedies_record(now) == get_home_remedies(text, << >>, now).logged[1]

\* A variant that reads one more record.
last_hundred_and_one(log) == list_from(log, 0 - (MAX_SESSIONS + 1))

\* self.sessions[-100:]
last_hundred(log) == list_from(log, 0 - MAX_SESSIONS)

\* self.sessions.append(session_data)
RaceAppend(t) ==
    /\ pc[t] = "append"
    /\ sessions' = Append(sessions, remedies_record(clock - MaxThreads + t - 1))
    /\ appended' = Append(appended, remedies_record(clock - MaxThreads + t - 1))
    /\ pc' = [pc EXCEPT ![t] = "test"]
    /\ UNCHANGED <<clock, text, lastCall, returned, google_api_key, exchange,
                   mvp_medicines, mvp_exchange, slice>>

\* if len(self.sessions) > 100
RaceTest(t) ==
    /\ pc[t] = "test"
    /\ pc' = [pc EXCEPT ![t] = IF Len(sessions) > MAX_SESSIONS THEN "read" ELSE "done"]
    /\ UNCHANGED <<sessions, clock, appended, text, lastCall, returned, google_api_key,
                   exchange, mvp_medicines, mvp_exchange, slice>>

\* the right-hand side of self.sessions = self.sessions[-100:]
RaceRead(t) ==
    /\ pc[t] = "read"
    /\ slice' = [slice EXCEPT ![t] = last_hundred(sessions)]
    /\ pc' = [pc EXCEPT ![t] = "assign"]
    /\ UNCHANGED <<sessions, clock, appended, text, lastCall, returned, google_api_key,
                   exchange, mvp_medicines, mvp_exchange>>

\* the assignment of self.sessions = self.sessions[-100:]
RaceAssign(t) ==
    /\ pc[t] = "assign"
    /\ sessions' = slice[t]
    /\ pc' = [pc EXCEPT ![t] = "done"]
    /\ UNCHANGED <<clock, appended, text, lastCall, returned, google_api_key, exchange,
                   mvp_medicines, mvp_exchange, slice>>

\* A server that has logged between 100 - MaxRoom and 100 get_remedies
\* calls, one after the other, and on which every thread has made the
\* record of one more and is about to log it.
InitRace ==
    /\ text \in ServerTexts
    /\ \E n \in (MAX_SESSIONS - MaxRoom)..MAX_SESSIONS :
           /\ sessions = [i \in 1..n |-> remedies_record(i - 1)]
           /\ clock = n + MaxThreads
    /\ appended = sessions
    /\ google_api_key = KeyNone
    /\ lastCall = NoCall
    /\ returned = [m \in TextTools |-> {}]
    /\ exchange = NoExchange
    /\ mvp_medicines = MVP_BASIC_MEDICINES
    /\ mvp_exchange = NoExchange
    /\ pc = [t \in Threads |-> "append"]
    /\ slice = [t \in Threads |-> << >>]

NextRace ==
    \E t \in Threads :
        \/ RaceAppend(t)
        \/ RaceTest(t)
        \/ RaceRead(t)
        \/ RaceAssign(t)

SpecRace == InitRace /\ [][NextRace]_vars

---------------------------------------------------------------------------
(* The claims.                                                             *)

\* The params are a dict whose texts are strs and whose numbers are ints.
WellTyped(params) ==
    /\ params # PyNone
    /\ \A k \in DOMAIN params :
           IF k \in {"limit", "radius_km"} THEN is_int(params[k]) ELSE is_str(params[k])

\* The request of the last call was served by tool `method` (its params a
\* dict of values of the tool's types).
Served(method) == lastCall.method = method /\ WellTyped(lastCall.params)

\* The numbers of the emergency keywords found in the lowercased text s.
RedFlagNumbers(s) ==
    {i \in 1..Len(EMERGENCY_KEYWORDS) : str_contains(s, EMERGENCY_KEYWORDS[i])}

\* The n-th smallest number of a set of numbers.
NthOf(numbers, n) ==
    CHOOSE i \in numbers : Cardinality({j \in numbers : j < i}) = n - 1

\* C1: whenever the analysed text holds an emergency keyword, the triage
\* level is "emergency", whatever else the text holds, and detected_red_flags
\* lists every emergency keyword found in it, in the order of the table.
C1_EmergencyOverrides ==
    Served("analyze_symptoms") =>
        LET found == RedFlagNumbers(str_lower(lastCall.params.symptoms.py_str))
            result == lastCall.result
        IN  found # {} =>
                /\ result.triage_level = "emergency"
                /\ Len(result.detected_red_flags) = Cardinality(found)
                /\ \A n \in 1..Cardinality(found) :
                       result.detected_red_flags[n] = EMERGENCY_KEYWORDS[NthOf(found, n)]

\* C1's case: an analysed text with two emergency keywords, written in the
\* opposite of table order, that also holds a condition keyword.
C1_Witness ==
    /\ Served("analyze_symptoms")
    /\ LET s == str_lower(lastCall.params.symptoms.py_str)
       IN  /\ str_contains(s, EMERGENCY_KEYWORDS[2] \o <<" ">> \o EMERGENCY_KEYWORDS[1])
           /\ any_word_in(PAIN_WORDS, s)
    /\ lastCall.result.detected_red_flags = <<EMERGENCY_KEYWORDS[1], EMERGENCY_KEYWORDS[2]>>

\* C2: the session log never holds more than 100 records, and it is always
\* the last min(N, 100) of the N records appended so far, oldest first.
C2_LogIsNewestHundred ==
    LET n == Len(appended)
        kept == IF n > 100 THEN 100 ELSE n
    IN  /\ Len(sessions) <= 100
        /\ Len(sessions) = kept
        /\ \A i \in 1..kept : sessions[i] = appended[n - kept + i]

\* C2's case: 105 records were appended; 100 remain, the 6th to the 105th.
C2_Witness ==
    /\ Len(appended) = 105
    /\ Len(sessions) = 100
    /\ sessions[1] = appended[6]
    /\ sessions[1] # appended[1]
    /\ sessions[100] = appended[105]

\* C3: after every successful call of analyze_symptoms, suggest_medicine,
\* get_remedies or find_chemists, on every branch, the returned result is
\* the output of the newest record of the session log.
C3_EveryCallIsLogged ==
    (\E m \in {"analyze_symptoms", "suggest_medicine", "get_remedies", "find_chemists"} :
         Served(m))
    => /\ sessions # << >>
       /\ sessions[Len(sessions)].output = lastCall.result

\* The tags in the order _identify_condition is said to test them, each with
\* its keywords.
TagOrder == <<s_fever, s_headache, s_cough, s_cold, s_stomach_upset, s_pain>>
TagWords ==
    <<FEVER_WORDS, HEADACHE_WORDS, COUGH_WORDS, COLD_WORDS, STOMACH_WORDS, PAIN_WORDS>>
TagsMatching(s) == {i \in 1..Len(TagOrder) : any_word_in(TagWords[i], s)}
FirstMatchingTag(s) ==
    IF TagsMatching(s) = {} THEN s_general ELSE TagOrder[NthOf(TagsMatching(s), 1)]

\* C4: the condition of every text is the first tag, in the order fever,
\* headache, cough, cold, stomach_upset, pain, one of whose keywords is in the
\* text, and general when there is none; so a text with a fever keyword and a
\* headache keyword is classified fever.  Every non-emergency analysis
\* reports that tag.
C4_FirstTagWins ==
    LET s == str_lower(text)
    IN  /\ _identify_condition(s) = FirstMatchingTag(s)
        /\ (any_word_in(FEVER_WORDS, s) /\ any_word_in(HEADACHE_WORDS, s))
               => _identify_condition(s) = s_fever
        /\ (Served("analyze_symptoms") /\ RedFlagNumbers(s) = {})
               => lastCall.result.condition = FirstMatchingTag(s)

\* C4's case: an analysed text that names a headache before a fever.
C4_Witness ==
    /\ Served("analyze_symptoms")
    /\ LET s == str_lower(text)
       IN  /\ str_contains(s, s_headache \o <<" ">> \o s_fever)
           /\ RedFlagNumbers(s) = {}
    /\ lastCall.result.condition = s_fever

\* The severity words and the persistence words, as the claim lists them.
SeverityWords ==
    {
      <<"s","e","v","e","r","e">>,  \* "severe"
      <<"e","x","t","r","e","m","e">>,  \* "extreme"
      <<"u","n","b","e","a","r","a","b","l","e">>,  \* "unbearable"
      <<"i","n","t","e","n","s","e">>   \* "intense"
    }
PersistenceWords ==
    {
      <<"h","i","g","h"," ","f","e","v","e","r">>,  \* "high fever"
      <<"1","0","3">>,  \* "103"
      <<"p","e","r","s","i","s","t","e","n","t">>,  \* "persistent"
      <<"w","o","r","s","e","n","i","n","g">>   \* "worsening"
    }
HoldsOneOf(s, words) == \E w \in words : str_contains(s, w)

\* C5: an analysed text with no emergency keyword is urgent if it holds a
\* severity word, else routine if it holds a persistence word, else
\* self_care; the condition tag plays no part.
C5_TriageLevels ==
    (Served("analyze_symptoms") /\ RedFlagNumbers(str_lower(text)) = {})
    => LET s == str_lower(text)
       IN  lastCall.result.triage_level =
               IF HoldsOneOf(s, SeverityWords) THEN "urgent"
               ELSE IF HoldsOneOf(s, PersistenceWords) THEN "routine"
               ELSE "self_care"

\* C5's case: an analysed text with a severity word and a persistence word
\* and no emergency keyword.
C5_Witness ==
    /\ Served("analyze_symptoms")
    /\ LET s == str_lower(text)
       IN  /\ RedFlagNumbers(s) = {}
           /\ HoldsOneOf(s, SeverityWords)
           /\ HoldsOneOf(s, PersistenceWords)
    /\ lastCall.result.triage_level = "urgent"

\* C6: analyze_symptoms, suggest_medicine and get_remedies each returned one
\* and the same result for the text in every call so far, whatever the log
\* held at the call; and the log shows the same: records of one type and
\* input have one output.
C6_SameArgumentsSameResult ==
    /\ \A m \in TextTools : Cardinality(returned[m]) <= 1
    /\ \A i, j \in 1..Len(sessions) :
           (sessions[i].type = sessions[j].type /\ sessions[i].input = sessions[j].input)
               => sessions[i].output = sessions[j].output

\* C6's case: analyze_symptoms was called on an empty log and again on a log
\* of one record, and returned the same result.
C6_Witness ==
    /\ Len(sessions) = 2
    /\ sessions[1].type = "symptom_analysis"
    /\ sessions[2].type = "symptom_analysis"
    /\ sessions[1].timestamp # sessions[2].timestamp
    /\ Served("analyze_symptoms")
    /\ returned["analyze_symptoms"] = {sessions[1].output}

\* C7: get_session_logs(limit) on a log of n records returns the last
\* min(limit, n) records, in order, for every limit >= 0 (10 when no limit is
\* given), and n as total_sessions; limit = 0 returns no record.
C7_RecentSessions ==
    Served("get_session_logs") =>
        LET limit == IF "limit" \in DOMAIN lastCall.params THEN lastCall.params.limit.py_int ELSE 10
            n == Len(sessions)
            k == IF limit < n THEN limit ELSE n
            recent == lastCall.result.recent_sessions
        IN  /\ lastCall.result.total_sessions = n
            /\ Len(recent) = k
            /\ \A i \in 1..k : recent[i] = sessions[n - k + i]

\* The text in upper case, as Python's str.upper() gives it: one way of
\* writing the text in another case.
char_upper(c) ==
    IF IsIn(c, LOWERCASE) THEN UPPERCASE[IndexIn(c, LOWERCASE)]
    ELSE IF c = LONG_S THEN "S" ELSE c
str_upper(s) == [i \in 1..Len(s) |-> char_upper(s[i])]

\* A dict without some of its keys.
Without(d, keys) == [k \in DOMAIN d \ keys |-> d[k]]

\* What tool `method` returns for the text t, less the field that echoes t:
\* the assessment of an analysis, the condition of the other two.
Answer(method, t) ==
    Without(handle_mcp_request(method,
                [x \in DOMAIN lastCall.params |-> PyStr(t)],
                google_api_key, PlacesRaises, sessions, clock).result,
            IF method = "analyze_symptoms" THEN {"assessment"} ELSE {"condition"})

\* C8: analyze_symptoms, suggest_medicine and get_remedies return for the
\* text in upper case and in lower case what they return for the text
\* itself, but for the fields that echo the text.
C8_CaseInsensitive ==
    \A m \in TextTools :
        Served(m) =>
            /\ Answer(m, str_upper(text)) = Answer(m, text)
            /\ Answer(m, str_lower(text)) = Answer(m, text)

\* C9: an analysis result with triage_level "emergency" is the emergency
\* result: message, action "seek_immediate_help", a non-empty
\* detected_red_flags, the three emergency contacts and a disclaimer, and no
\* condition, medicine_suggestion or home_remedies.
C9_EmergencyResult ==
    (Served("analyze_symptoms") /\ lastCall.result.triage_level = "emergency")
    => LET result == lastCall.result
       IN  /\ DOMAIN result = {"triage_level", "message", "action", "detected_red_flags",
                               "emergency_contacts", "disclaimer"}
           /\ result.action = "seek_immediate_help"
           /\ result.detected_red_flags # << >>
           /\ result.emergency_contacts =
                  [ambulance |-> "102 / 108", police |-> "100", fire |-> "101"]
           /\ result.message # ""
           /\ result.disclaimer # ""

\* C9's case: an emergency result was returned.
C9_Witness ==
    /\ Served("analyze_symptoms")
    /\ lastCall.result.triage_level = "emergency"
    /\ lastCall.result.detected_red_flags = <<EMERGENCY_KEYWORDS[5]>>

\* C10: a non-emergency analysis whose condition has no record in the
\* medicine table carries, as medicine_suggestion, the pharmacist
\* consultation fallback with its OTC note, not an empty record.
C10_PharmacistFallback ==
    (/\ Served("analyze_symptoms")
     /\ lastCall.result.triage_level # "emergency"
     /\ lastCall.result.condition \in {s_cough, s_stomach_upset, s_general})
    => /\ lastCall.result.medicine_suggestion # EmptyDict
       /\ "common_otc" \in DOMAIN lastCall.result.medicine_suggestion

---------------------------------------------------------------------------
(* Remedies and medicines of the text tools.                               *)

\* The last call was an analysis that took the triage branch.
Triaged == Served("analyze_symptoms") /\ lastCall.result.triage_level # "emergency"

\* The places of the remedy table whose key is `tag`.
RemedyEntries(tag) == {i \in 1..Len(HOME_REMEDIES) : HOME_REMEDIES[i][1] = tag}

\* C11: a non-emergency analysis whose tag is pain or general, the tags with
\* no entry in the remedy table, has home_remedies = ["Rest", "Stay hydrated",
\* "Monitor symptoms"]; for every other tag home_remedies is the whole remedy
\* list of the tag's entry, in table order.
C11_RemedyFallback ==
    Triaged =>
        LET tag == lastCall.result.condition
            home_remedies == lastCall.result.home_remedies
        IN  IF tag \in {s_pain, s_general}
            THEN /\ RemedyEntries(tag) = {}
                 /\ home_remedies = <<"Rest", "Stay hydrated", "Monitor symptoms">>
            ELSE /\ RemedyEntries(tag) # {}
                 /\ \A i \in RemedyEntries(tag) :
                        /\ home_remedies = HOME_REMEDIES[i][2]
                        /\ Len(home_remedies) = 5

\* An analysis tagged pain answered with the three general remedies.
C11_Witness ==
    /\ Triaged
    /\ lastCall.result.condition = s_pain
    /\ lastCall.result.home_remedies = <<"Rest", "Stay hydrated", "Monitor symptoms">>

\* The medicine keys in the order their keywords are tested, and the
\* keywords of each.
MedicineOrder == <<s_fever, s_headache, s_pain, s_cold>>
MedicineWords ==
    <<{s_fever, <<"t","e","m","p","e","r","a","t","u","r","e">>},
      {s_headache, <<"h","e","a","d"," ","p","a","i","n">>},
      {s_pain, <<"a","c","h","e">>},
      {s_cold, s_cough}>>
MedicinesMatching(s) == {i \in 1..Len(MedicineOrder) : HoldsOneOf(s, MedicineWords[i])}

\* The result that refers to the pharmacist.
IsPharmacistReferral(result) ==
    /\ DOMAIN result = {"message", "general_advice", "common_otc", "disclaimer"}
    /\ result.message = "Please consult a pharmacist for specific medicine recommendations"
    /\ result.disclaimer # ""

\* C12: suggest_medicine tests the fever keywords, then the headache
\* keywords, then "pain" and "ache", then "cold" and "cough", and answers
\* with the medicine of the first key that matches; a text that matches none
\* gets the pharmacist-referral message with its disclaimer, and no error.
C12_MedicineMapping ==
    Served("suggest_medicine") =>
        LET s == str_lower(lastCall.params.condition.py_str)
            hits == MedicinesMatching(s)
            result == lastCall.result
        IN  IF hits = {}
            THEN IsPharmacistReferral(result) /\ "error" \notin DOMAIN result
            ELSE LET key == MedicineOrder[NthOf(hits, 1)]
                 IN  /\ _map_condition_to_medicine(s) = key
                     /\ \E i \in 1..Len(BASIC_MEDICINES) :
                            /\ BASIC_MEDICINES[i][1] = key
                            /\ result.recommended_medicine = BASIC_MEDICINES[i][2].medicine
                            /\ result.dosage = BASIC_MEDICINES[i][2].dose

\* A text with a pain keyword and a cold keyword got the pain medicine.
C12_Witness ==
    /\ Served("suggest_medicine")
    /\ LET s == str_lower(lastCall.params.condition.py_str)
       IN  MedicinesMatching(s) = {3, 4}
    /\ lastCall.result.recommended_medicine = "Ibuprofen"

\* The remedy keys in table order, and for each the key and its parts
\* between underscores.
RemedyOrder == <<s_fever, s_cough, s_headache, s_cold, s_stomach_upset>>
RemedyParts ==
    <<{s_fever}, {s_cough}, {s_headache}, {s_cold},
      {s_stomach_upset, <<"s","t","o","m","a","c","h">>, <<"u","p","s","e","t">>}>>
RemediesMatching(s) == {i \in 1..Len(RemedyOrder) : HoldsOneOf(s, RemedyParts[i])}

\* The place of the first `item` in `list`.
FirstPlace(list, item) ==
    CHOOSE i \in 1..Len(list) : list[i] = item /\ \A j \in 1..(i - 1) : list[j] # item

\* `list` holds the items of `all`, each once, in the order of their first
\* places in `all`.
IsFirstsOf(list, all) ==
    /\ {list[i] : i \in 1..Len(list)} = {all[i] : i \in 1..Len(all)}
    /\ \A i, j \in 1..Len(list) :
           i < j => FirstPlace(all, list[i]) < FirstPlace(all, list[j])

\* C13: get_remedies matches a remedy key when the key, or a part of it
\* between underscores, is inside the lowercased text; matched_categories
\* lists every matched key in table order, and remedies is the matched keys'
\* lists put together in that order with every remedy kept once, at its first
\* place; "cold and cough" matches both cold and cough.
C13_RemedyMatching ==
    (Served("get_remedies")
     /\ RemediesMatching(str_lower(lastCall.params.condition.py_str)) # {})
    => LET hits == RemediesMatching(str_lower(lastCall.params.condition.py_str))
           matched == lastCall.result.matched_categories
           together ==
               concat_all([n \in 1..Cardinality(hits) |->
                              HOME_REMEDIES[NthOf(hits, n)][2]])
       IN  /\ Len(matched) = Cardinality(hits)
           /\ \A n \in 1..Len(matched) :
                  /\ matched[n] = RemedyOrder[NthOf(hits, n)]
                  /\ matched[n] = HOME_REMEDIES[NthOf(hits, n)][1]
           /\ IsFirstsOf(lastCall.result.remedies, together)

\* "cold and cough" matched cough and cold, and got the ten remedies of both.
C13_Witness ==
    /\ Served("get_remedies")
    /\ lastCall.params.condition.py_str = <<"c","o","l","d"," ","a","n","d"," ","c","o","u","g","h">>
    /\ lastCall.result.matched_categories = <<s_cough, s_cold>>
    /\ Len(lastCall.result.remedies) = 10

\* The last call was get_remedies on a text that matches no remedy key.
NoRemedyMatched ==
    /\ Served("get_remedies")
    /\ RemediesMatching(str_lower(lastCall.params.condition.py_str)) = {}

HasDisclaimer(result) == "disclaimer" \in DOMAIN result /\ result.disclaimer # ""

\* C15: every result of analyze_symptoms (emergency or not), of
\* suggest_medicine (a medicine or the referral) and of get_remedies (matched
\* or fallback) holds a disclaimer that is not empty.
C15_Disclaimers ==
    /\ \A method \in TextTools :
           /\ Served(method) => HasDisclaimer(lastCall.result)
           /\ \A result \in returned[method] : HasDisclaimer(result)
    /\ \A result \in returned["analyze_symptoms"] :
           result.disclaimer =
               IF result.triage_level = "emergency"
               THEN "This is a medical emergency. Get professional medical help immediately."
               ELSE "This is informational only. Consult a healthcare professional for medical advice."

\* An emergency result and a pharmacist referral, both with a disclaimer,
\* were returned for one text.
C15_Witness ==
    /\ \E result \in returned["analyze_symptoms"] :
           result.triage_level = "emergency" /\ HasDisclaimer(result)
    /\ \E result \in returned["suggest_medicine"] :
           IsPharmacistReferral(result) /\ HasDisclaimer(result)

---------------------------------------------------------------------------
(* The /mcp endpoint.                                                      *)

KnownMethods ==
    {"analyze_symptoms", "suggest_medicine", "get_remedies", "find_chemists",
     "get_session_logs", "list_tools"}

\* The last post carried a JSON object.
PostedObject == exchange.request.kind = "dict"

\* The method of the last post, "" when its object has none.
PostedMethod ==
    IF "method" \in DOMAIN exchange.request.data THEN exchange.request.data.method ELSE ""

\* The id that the response to the last post has to carry when the post
\* logged nothing: the id of the request, or the one made of the time of the
\* request, the one timestamp handed out since.
PostedId ==
    IF "id" \in DOMAIN exchange.request.data THEN exchange.request.data.id
    ELSE [req |-> clock - 1]

UnknownMethodResult(name) == [error |-> <<"Unknown method: ", name>>]

\* C16: for every method name other than the six known ones
\* handle_mcp_request returns {error: "Unknown method: <name>"} with the name
\* as requested, and the response of the web endpoint to a request with such
\* a (non-empty) name carries that record in its result field and has no
\* protocol-level error field.
C16_UnknownMethod ==
    /\ \A name \in OtherNames \cup {""} : \A params \in {PyNone, EmptyDict} :
           handle_mcp_request(name, params, google_api_key, PlacesRaises, sessions, clock)
               = Returns(UnknownMethodResult(name), sessions)
    /\ (PostedObject /\ PostedMethod \notin KnownMethods \cup {""})
       => /\ exchange.response =
                 [id |-> PostedId, result |-> UnknownMethodResult(PostedMethod),
                  jsonrpc |-> "2.0"]
          /\ "error" \notin DOMAIN exchange.response
          /\ lastCall.method = PostedMethod
          /\ lastCall.result = exchange.response.result

\* A post of method "diagnose" was answered in the result field.
C16_Witness ==
    /\ PostedObject
    /\ PostedMethod = "diagnose"
    /\ DOMAIN exchange.response = {"id", "result", "jsonrpc"}
    /\ exchange.response.result.error = <<"Unknown method: ", "diagnose">>

\* The last post was answered with the protocol-level error "Method required".
MethodRequired ==
    exchange.response =
        [id |-> PostedId, error |-> [code |-> -32601, message |-> "Method required"],
         jsonrpc |-> "2.0"]

\* C17: a request whose method is missing or empty is answered with
\* {id, error: {code: -32601, message: "Method required"}, jsonrpc: "2.0"}
\* and no result field; no tool handler runs and the session log stays as it
\* was.
C17_MethodRequired ==
    /\ []((PostedObject /\ PostedMethod = "")
            => MethodRequired /\ "result" \notin DOMAIN exchange.response)
    /\ [][(exchange'.request.kind = "dict"
            /\ ("method" \in DOMAIN exchange'.request.data
                     => exchange'.request.data.method = ""))
           => /\ sessions' = sessions
              /\ appended' = appended
              /\ lastCall' = lastCall
              /\ returned' = returned]_vars

\* A post with an empty method and an id was refused after an analysis had
\* been logged.
C17_Witness ==
    /\ PostedObject
    /\ exchange.request.data = [method |-> "", id |-> PyStr(<<"1">>)]
    /\ MethodRequired
    /\ Len(sessions) = 1
    /\ lastCall.method = "analyze_symptoms"

---------------------------------------------------------------------------
(* Failures: the places search and the dispatcher.                         *)

Chains == <<"Apollo Pharmacy", "MedPlus", "Netmeds", "1mg", "Guardian Pharmacy">>

\* The payload for a server with no API key.
IsNoKeyFallback(result) ==
    /\ DOMAIN result = {"error", "message", "manual_search", "common_chains"}
    /\ result.error = "Google Places API key not configured"
    /\ result.manual_search = <<"Search for 'pharmacy near ", text, "' on Google Maps">>
    /\ result.common_chains = Chains

\* The payload for a search that failed with the exception text e.
IsSearchFallback(result, e) ==
    /\ DOMAIN result = {"error", "fallback", "common_chains"}
    /\ result.error = <<"Failed to search chemists: ", e>>
    /\ result.fallback = "Try searching 'pharmacy near me' on Google Maps"
    /\ result.common_chains = Chains

\* The ways the search fails in the model, with the text of the exception.
FailingSearches ==
    {<<PyInt(5), PlacesRaises, "REQUEST_DENIED">>,
     <<PyInt(5), PlacesAnswers(<<PlaceFull, PlaceBroken>>), "'location'">>,
     <<PyNone, PlacesAnswers(<< >>),
       "unsupported operand type(s) for *: 'NoneType' and 'int'">>}

\* C18: find_chemists hands no failure on: with the API key unset or the
\* placeholder it returns a payload with an error text, the manual-search
\* guidance and the five chains; with a key, a search that raises gives a
\* payload with the error text, the guidance and the same five chains, and
\* every other search its list of chemists.
C18_ChemistFallback ==
    /\ (lastCall.method = "find_chemists" /\ lastCall.params # PyNone)
       => IF google_api_key \in {KeyNone, KeyPlaceholder}
          THEN IsNoKeyFallback(lastCall.result)
          ELSE \/ \E search \in FailingSearches :
                      IsSearchFallback(lastCall.result, search[3])
               \/ /\ "error" \notin DOMAIN lastCall.result
                  /\ lastCall.result.total_found = Len(lastCall.result.chemists)
    /\ \A search \in FailingSearches :
           /\ IsSearchFallback(
                  find_nearby_chemists(text, search[1], "AIza-key", search[2],
                                       sessions, clock).result,
                  search[3])
           /\ \A key \in {KeyNone, "", KeyPlaceholder} :
                  IsNoKeyFallback(
                      find_nearby_chemists(text, search[1], key, search[2],
                                           sessions, clock).result)

\* A search that was refused was answered with the fallback payload.
C18_Witness ==
    /\ lastCall.method = "find_chemists"
    /\ lastCall.params = [location |-> PyStr(text)]
    /\ google_api_key = "AIza-key"
    /\ IsSearchFallback(lastCall.result, "REQUEST_DENIED")

\* The last call raised inside the dispatcher or a handler: its params were
\* None where the method reads them, its text was no str, or its limit was
\* no int.
RaisedInside ==
    LET method == lastCall.method
        params == lastCall.params
        holds(k, is_type(_)) == k \in DOMAIN params /\ ~is_type(params[k])
    IN  /\ method \in KnownMethods \ {"list_tools"}
        /\ \/ params = PyNone
           \/ /\ params # PyNone
              /\ \/ method = "analyze_symptoms" /\ holds("symptoms", is_str)
                 \/ method \in {"suggest_medicine", "get_remedies"}
                        /\ holds("condition", is_str)
                 \/ method = "get_session_logs" /\ holds("limit", is_int)

IsServerError(result) ==
    /\ DOMAIN result = {"error", "disclaimer"}
    /\ result.error[1] = "Server error: "
    /\ result.error[2] # ""
    /\ result.disclaimer = "Please consult a healthcare professional"

\* C19: handle_mcp_request returns a record for every method name and every
\* params value: a call that raises inside (params null, symptoms or
\* condition not a string, limit not an integer) returns the record with
\* error "Server error: ..." and the disclaimer, and every other call the
\* record of its method.
C19_NeverRaises ==
    lastCall # NoCall =>
        IF RaisedInside
        THEN IsServerError(lastCall.result)
        ELSE /\ DOMAIN lastCall.result # {}
             /\ DOMAIN lastCall.result # {"error", "disclaimer"}
             /\ DOMAIN lastCall.result \subseteq
                    {"error", "tools", "total_sessions", "recent_sessions", "server_uptime",
                     "message", "manual_search", "common_chains", "fallback", "location",
                     "radius_km", "total_found", "chemists", "search_timestamp", "note",
                     "triage_level", "action", "detected_red_flags", "emergency_contacts",
                     "disclaimer", "condition", "assessment", "medicine_suggestion",
                     "home_remedies", "follow_up", "warning_signs", "general_advice",
                     "common_otc", "recommended_medicine", "dosage", "frequency",
                     "max_daily", "warnings", "matched_categories", "remedies",
                     "general_tips", "warning"}

\* An analysis of the number 5 was answered with the server error.
C19_Witness ==
    /\ lastCall.method = "analyze_symptoms"
    /\ lastCall.params = [symptoms |-> PyInt(5)]
    /\ lastCall.result =
           [error |-> <<"Server error: ", <<"'", "int", "' object has no attribute 'lower'">> >>,
            disclaimer |-> "Please consult a healthcare professional"]

---------------------------------------------------------------------------
(* The assembled analysis.                                                 *)

\* The triage level of a lowercased text with no emergency keyword.
LevelOf(s) ==
    IF HoldsOneOf(s, SeverityWords) THEN "urgent"
    ELSE IF HoldsOneOf(s, PersistenceWords) THEN "routine"
    ELSE "self_care"

\* The advice of each triage level.
AdviceOf(level) ==
    CASE level = "urgent" -> "See a doctor within 24 hours"
      [] level = "routine" ->
           "Schedule appointment with doctor within 1-2 weeks if symptoms persist"
      [] level = "self_care" ->
           "Monitor symptoms. See doctor if they worsen or persist beyond 3-5 days"

\* The places of the medicine table whose key is `tag`.
MedicineEntries(tag) == {i \in 1..Len(BASIC_MEDICINES) : BASIC_MEDICINES[i][1] = tag}

\* C20: the analysis of a text with no emergency keyword, classified c with
\* triage level t, has condition = c, triage_level = t, the medicine record
\* of c as medicine_suggestion, the remedy list of c as home_remedies and the
\* advice of t as follow_up; "I have fever" gives fever, self_care,
\* Paracetamol at "500mg every 6-8 hours" and remedies that start with "Rest
\* and drink plenty of fluids (water, fruit juices)".
C20_AssembledAnalysis ==
    Triaged =>
        LET s == str_lower(lastCall.params.symptoms.py_str)
            c == FirstMatchingTag(s)
            t == LevelOf(s)
            result == lastCall.result
        IN  /\ result.condition = c
            /\ result.triage_level = t
            /\ \A i \in MedicineEntries(c) :
                   result.medicine_suggestion = BASIC_MEDICINES[i][2]
            /\ \A i \in RemedyEntries(c) : result.home_remedies = HOME_REMEDIES[i][2]
            /\ result.follow_up = AdviceOf(t)
            /\ (lastCall.params.symptoms.py_str
                    = <<"I"," ","h","a","v","e"," ","f","e","v","e","r">>)
               => /\ c = s_fever
                  /\ t = "self_care"
                  /\ result.medicine_suggestion.medicine = "Paracetamol"
                  /\ result.medicine_suggestion.dose = "500mg every 6-8 hours"
                  /\ result.home_remedies[1]
                         = "Rest and drink plenty of fluids (water, fruit juices)"

\* "I have fever" was analysed.
C20_Witness ==
    /\ Triaged
    /\ lastCall.params.symptoms.py_str = <<"I"," ","h","a","v","e"," ","f","e","v","e","r">>
    /\ lastCall.result.condition = s_fever
    /\ lastCall.result.follow_up
           = "Monitor symptoms. See doctor if they worsen or persist beyond 3-5 days"

---------------------------------------------------------------------------
(* The suggested medicine.                                                 *)

\* Field k of a record, or `default` when the record has no such field.
FieldOr(record, k, default) == IF k \in DOMAIN record THEN record[k] ELSE default

\* C21: for every condition text that maps to a medicine key k,
\* suggest_medicine returns recommended_medicine, dosage and max_daily from
\* record k (max_daily empty when the record has none), frequency from record
\* k or "As needed" when the record has none, and warnings = [warning of k]
\* followed by the age_restriction of k when the record has one; for
\* "headache" recommended_medicine is "Paracetamol or Ibuprofen" and the
\* warnings hold "Don't take both together".
C21_MedicineFields ==
    (Served("suggest_medicine")
     /\ MedicinesMatching(str_lower(lastCall.params.condition.py_str)) # {})
    => LET s == str_lower(lastCall.params.condition.py_str)
           k == MedicineOrder[NthOf(MedicinesMatching(s), 1)]
           result == lastCall.result
       IN  /\ MedicineEntries(k) # {}
           /\ \A i \in MedicineEntries(k) :
                  LET record == BASIC_MEDICINES[i][2]
                  IN  /\ result.recommended_medicine = record.medicine
                      /\ result.dosage = record.dose
                      /\ result.max_daily = FieldOr(record, "max_daily", "")
                      /\ result.frequency = FieldOr(record, "frequency", "As needed")
                      /\ result.warnings =
                             IF "age_restriction" \in DOMAIN record
                             THEN <<record.warning, record.age_restriction>>
                             ELSE <<record.warning>>
           /\ (lastCall.params.condition.py_str = s_headache)
              => /\ result.recommended_medicine = "Paracetamol or Ibuprofen"
                 /\ \E n \in 1..Len(result.warnings) :
                        result.warnings[n] = "Don't take both together"

\* "headache" was answered with its medicine and its two warnings.
C21_Witness ==
    /\ Served("suggest_medicine")
    /\ lastCall.params.condition.py_str = s_headache
    /\ lastCall.result.recommended_medicine = "Paracetamol or Ibuprofen"
    /\ lastCall.result.frequency = "every 6-8 hours"
    /\ lastCall.result.warnings =
           <<"Don't take both together", "Ibuprofen not for children under 6 months">>

\* The names of the tools of a descriptor, in its order.
ToolNames(descriptor) == [i \in 1..Len(descriptor.tools) |-> descriptor.tools[i].name]

\* What list_tools returns in this state: of the extended server, and of
\* the MVP.
ListedNow ==
    handle_mcp_request("list_tools", EmptyDict, google_api_key, PlacesRaises,
                       sessions, clock).result
MvpListedNow ==
    mvp_mcp_endpoint([method |-> "list_tools", params |-> PyNone, id |-> PyNone],
                     mvp_medicines).response.result

\* The dispatcher of the extended server has a branch for `name`.
Accepts(name) ==
    "tools" \in DOMAIN handle_mcp_request(name, EmptyDict, KeyNone, PlacesRaises,
                                          << >>, 0).result
    \/ handle_mcp_request(name, EmptyDict, KeyNone, PlacesRaises, << >>, 0).result
           # UnknownMethodResult(name)

\* The dispatcher of the MVP has a branch for `name`.
MvpAccepts(name) ==
    LET result == mvp_mcp_endpoint([method |-> name, params |-> PyNone, id |-> PyNone],
                                   MVP_BASIC_MEDICINES).response.result
    IN  "error" \notin DOMAIN result

\* C22: in every state list_tools returns the descriptor it returned at the
\* start: the extended server lists exactly analyze_symptoms,
\* suggest_medicine, get_remedies, find_chemists and get_session_logs, the
\* MVP exactly analyze_symptoms, suggest_medicine and get_remedies, each
\* tool with parameter names, every listed name is a method that the
\* server's dispatcher accepts, and the list_tools calls made returned it.
C22_StaticDescriptor ==
    /\ ListedNow = handle_mcp_request("list_tools", EmptyDict, KeyNone, PlacesRaises,
                                      << >>, 0).result
    /\ ToolNames(ListedNow) = <<"analyze_symptoms", "suggest_medicine", "get_remedies",
                                "find_chemists", "get_session_logs">>
    /\ \A i \in 1..Len(ListedNow.tools) :
           ListedNow.tools[i].parameters # {} /\ Accepts(ListedNow.tools[i].name)
    /\ MvpListedNow = mvp_mcp_endpoint([method |-> "list_tools", params |-> PyNone,
                                        id |-> PyNone], MVP_BASIC_MEDICINES).response.result
    /\ ToolNames(MvpListedNow) = <<"analyze_symptoms", "suggest_medicine", "get_remedies">>
    /\ \A i \in 1..Len(MvpListedNow.tools) :
           MvpListedNow.tools[i].parameters # {} /\ MvpAccepts(MvpListedNow.tools[i].name)
    /\ lastCall.method = "list_tools" => lastCall.result = ListedNow
    /\ (mvp_exchange # NoExchange /\ mvp_exchange.request.method = "list_tools")
       => mvp_exchange.response.result = MvpListedNow

\* Both servers listed their tools after earlier calls: the extended server
\* with a record in its log, the MVP with its medicine table written.
C22_Witness ==
    /\ lastCall.method = "list_tools"
    /\ Len(sessions) > 0
    /\ mvp_exchange # NoExchange
    /\ mvp_exchange.request.method = "list_tools"
    /\ mvp_medicines # MVP_BASIC_MEDICINES
    /\ Len(mvp_exchange.response.result.tools) = 3

\* The response is an envelope: jsonrpc "2.0", an id field, and exactly one
\* of result and error.
IsEnvelope(response) ==
    /\ "jsonrpc" \in DOMAIN response
    /\ response.jsonrpc = "2.0"
    /\ "id" \in DOMAIN response
    /\ ("result" \in DOMAIN response) # ("error" \in DOMAIN response)

\* C23: every response of POST /mcp, of the web server of the extended
\* server and of the MVP, carries jsonrpc "2.0", an id field and exactly one
\* of result and error, and the response to a request that is a JSON object
\* with a non-empty method and an id has the result field and the id of the
\* request.
C23_Envelope ==
    /\ exchange # NoExchange
       => /\ IsEnvelope(exchange.response)
          /\ (PostedObject /\ PostedMethod # "" /\ "id" \in DOMAIN exchange.request.data)
             => /\ "result" \in DOMAIN exchange.response
                /\ exchange.response.id = exchange.request.data.id
    /\ mvp_exchange # NoExchange
       => /\ IsEnvelope(mvp_exchange.response)
          /\ (mvp_exchange.request.method # "" /\ mvp_exchange.request.id # PyNone)
             => /\ "result" \in DOMAIN mvp_exchange.response
                /\ mvp_exchange.response.id = mvp_exchange.request.id

\* The part of C23 that is about the web server of the extended server.
C23_ExtendedEnvelope ==
    exchange # NoExchange
    => /\ IsEnvelope(exchange.response)
       /\ (PostedObject /\ PostedMethod # "" /\ "id" \in DOMAIN exchange.request.data)
          => /\ "result" \in DOMAIN exchange.response
             /\ exchange.response.id = exchange.request.data.id

\* The warning list of each condition that has one.
WarningsOf(tag) ==
    CASE tag = s_fever -> <<"Temperature above 103F (39.4C)",
                            "Persistent fever beyond 3 days", "Difficulty breathing">>
      [] tag = s_headache -> <<"Sudden severe headache", "Headache with neck stiffness",
                               "Changes in vision">>
      [] tag = s_cough -> <<"Blood in cough", "Difficulty breathing", "Chest pain">>
      [] tag = s_cold -> <<"High fever", "Severe throat pain", "Ear pain">>
      [] tag = s_general -> <<"Worsening symptoms", "New severe symptoms",
                              "Signs of dehydration">>

\* C24: in every non-emergency analysis warning_signs is the warning list of
\* the classified condition when that is fever, headache, cough, cold or
\* general, the list of "general" when it is stomach_upset or pain, and it is
\* never empty.
C24_WarningSigns ==
    Triaged =>
        LET tag == lastCall.result.condition
            warning_signs == lastCall.result.warning_signs
        IN  /\ tag \in {s_fever, s_headache, s_cough, s_cold, s_general}
               => warning_signs = WarningsOf(tag)
            /\ tag \in {s_stomach_upset, s_pain} => warning_signs = WarningsOf(s_general)
            /\ tag \in {s_fever, s_headache, s_cough, s_cold, s_general,
                        s_stomach_upset, s_pain}
            /\ warning_signs # << >>

\* An analysis classified stomach_upset, which has no warning list of its
\* own, carries the general list.
C24_Witness ==
    /\ Triaged
    /\ lastCall.result.condition = s_stomach_upset
    /\ lastCall.result.warning_signs =
           <<"Worsening symptoms", "New severe symptoms", "Signs of dehydration">>

\* The methods whose tools hand a record to _log_session.
LoggingMethods == {"analyze_symptoms", "suggest_medicine", "get_remedies", "find_chemists"}

\* C25: a call of get_session_logs, of list_tools or of an unknown method
\* leaves the session log as it was, the same records in the same order, so
\* that get_session_logs returns after it what it returned before it.
C25_ReadOnlyCalls ==
    [][lastCall'.method \notin LoggingMethods
       => /\ sessions' = sessions
          /\ appended' = appended
          /\ \A limit \in 0..MaxLimit :
                 get_session_logs(limit, sessions').result
                     = get_session_logs(limit, sessions).result]_vars

\* get_session_logs was called with a positive limit on a log that holds
\* records, and returned some.
C25_Witness ==
    /\ lastCall.method = "get_session_logs"
    /\ WellTyped(lastCall.params)
    /\ Len(sessions) > 0
    /\ lastCall.result.recent_sessions # << >>
    /\ lastCall.result.total_sessions = Len(sessions)

\* C26: whenever handle_mcp_request turns an exception into the "Server
\* error" result, the session log after the call is the log before it: no
\* record, whole or partial, was appended.
C26_ErrorLeavesLog ==
    [][IsServerError(lastCall'.result)
       => /\ sessions' = sessions
          /\ appended' = appended
          /\ clock' = clock]_vars

\* A call was answered with the server error on a log that holds records.
C26_Witness ==
    /\ lastCall # NoCall
    /\ IsServerError(lastCall.result)
    /\ Len(sessions) > 0

\* total_sessions as get_session_logs reports it in this state.
TotalNow == get_session_logs(10, sessions).result.total_sessions

\* C28: when k records have been logged since the start, get_session_logs
\* reports total_sessions = min(k, 100), which is the number of records
\* retained; it never exceeds 100 and never decreases from one call to the
\* next.
C28_TotalSessions ==
    /\ [](/\ TotalNow = (IF Len(appended) < 100 THEN Len(appended) ELSE 100)
          /\ TotalNow = Len(sessions)
          /\ TotalNow <= 100
          /\ Served("get_session_logs") => lastCall.result.total_sessions = TotalNow)
    /\ [][get_session_logs(10, sessions').result.total_sessions >= TotalNow]_vars

\* get_session_logs was called after more than 100 records were logged and
\* reported 100.
C28_Witness ==
    /\ Served("get_session_logs")
    /\ Len(appended) > 100
    /\ lastCall.result.total_sessions = 100

\* C29: get_medicine_suggestion of the MVP leaves the BASIC_MEDICINES table
\* as it was at the start, so that analyze_symptoms_simple returns for the
\* text the medicine_suggestion (and the whole result) that it returns on
\* the table of the start, however many get_medicine_suggestion calls were
\* made before.
C29_TableUnchanged ==
    /\ mvp_medicines = MVP_BASIC_MEDICINES
    /\ analyze_symptoms_simple(text, mvp_medicines)
           = analyze_symptoms_simple(text, MVP_BASIC_MEDICINES)
    /\ (mvp_exchange # NoExchange /\ mvp_exchange.request.method = "analyze_symptoms"
           /\ mvp_exchange.request.params = [symptoms |-> PyStr(text)])
       => mvp_exchange.response.result = analyze_symptoms_simple(text, MVP_BASIC_MEDICINES)

\* The MVP answered the analysis of the text with the emergency result.
MvpEmergency ==
    /\ mvp_exchange # NoExchange
    /\ mvp_exchange.request.method = "analyze_symptoms"
    /\ "result" \in DOMAIN mvp_exchange.response
    /\ mvp_exchange.response.result.triage_level = "emergency"

\* C30: for every symptom text for which analyze_symptoms_simple of the MVP
\* returns triage_level "emergency", analyze_symptoms of the extended server
\* returns triage_level "emergency" too.
C30_EmergencyCovered ==
    /\ analyze_symptoms_simple(text, mvp_medicines).triage_level = "emergency"
       => analyze_symptoms(text, sessions, clock).result.triage_level = "emergency"
    /\ (MvpEmergency /\ Served("analyze_symptoms"))
       => lastCall.result.triage_level = "emergency"

\* Both servers analysed the text and both answered emergency.
C30_Witness ==
    /\ MvpEmergency
    /\ Served("analyze_symptoms")
    /\ lastCall.result.triage_level = "emergency"
    /\ lastCall.params.symptoms = mvp_exchange.request.params.symptoms

\* Every thread has left _log_session.
AllDone == \A t \in Threads : pc[t] = "done"

\* The list `part` is `whole` with some of its items left out: its items are
\* items of `whole`, at places that grow along `part`.
IsPartOf(part, whole) ==
    /\ \A i \in 1..Len(part) : \E k \in 1..Len(whole) : whole[k] = part[i]
    /\ LET places == [i \in 1..Len(part) |->
                          CHOOSE k \in 1..Len(whole) : whole[k] = part[i]]
       IN  \A i \in 1..(Len(part) - 1) : places[i] < places[i + 1]

\* The log is the newest records of all that were appended: what is missing
\* from it is the oldest.
OnlyOldestEvicted == sessions = list_from(appended, Len(appended) - Len(sessions))

\* C27 as stated: when _log_session calls that run at once, with no lock,
\* have interleaved between the append, the read of the last-100 slice and
\* the assignment of self.sessions, in the final state every appended record
\* is in the log or was evicted as one of the oldest (no update is lost), and
\* the log holds at most 100 records.
C27_NoLostUpdate ==
    AllDone => (OnlyOldestEvicted /\ Len(sessions) <= MAX_SESSIONS)

\* C27, amended: in the final state the log holds at most 100 records, each
\* of them an appended record, once and in the order of the appends, and the
\* records the log held at the start are missing only from its old end; a
\* record appended by one of the calls can be missing although older records
\* are retained.
C27_CapAndOrder ==
    AllDone =>
        /\ Len(sessions) <= MAX_SESSIONS
        /\ Len(sessions) >= MAX_SESSIONS - MaxRoom
        /\ IsPartOf(sessions, appended)

\* All calls have returned and a record that one of them appended is lost:
\* the log holds 100 records, the oldest of them older than the lost one.
C27_Witness ==
    /\ AllDone
    /\ Len(sessions) = MAX_SESSIONS
    /\ ~OnlyOldestEvicted
    /\ \E k \in 1..Len(appended) :
           /\ \A i \in 1..Len(sessions) : sessions[i] # appended[k]
           /\ sessions[1].timestamp < appended[k].timestamp

=========================================================================
